---- MODULE Spec2Model ----
(***************************************************************************)
(* Session transport of the Agentium frontend                              *)
(* (frontend/src/composables/useWebSocket.ts, the message-normalising      *)
(* useWebSocket that starts at line 368).                                  *)
(*                                                                         *)
(* The composable keeps a reactive state record, a reference ws to the     *)
(* current WebSocket, an outbound messageQueue and two timer handles.  The *)
(* handlers onopen/onmessage/onclose/onerror are closures over that shared *)
(* state: a socket that ws no longer references keeps its handlers and     *)
(* still runs them when the browser delivers its events.                   *)
(*                                                                         *)
(* Browser semantics used by the environment actions:                      *)
(*  - close() on a CONNECTING socket fails the connection: the socket      *)
(*    becomes CLOSING and later gets error + close with wasClean = false;  *)
(*  - error and close of one socket are delivered in the same task, so     *)
(*    they form one step;                                                  *)
(*  - readyState becomes CLOSING when a closing handshake starts, before   *)
(*    the close event is delivered;                                        *)
(*  - clearTimeout/clearInterval only cancel the timer whose id is passed. *)
(*                                                                         *)
(* The module also holds the voice activity detector                       *)
(* (frontend/src/composables/useVoiceActivityDetection.ts) with the        *)
(* recorder it starts and stops; it shares no state with the transport and *)
(* has a specification of its own, SpecVad.                                *)
(***************************************************************************)
EXTENDS Integers, Sequences, FiniteSets

\* ---------------------------------------------------------------- bounds
MaxSockets == 2
MaxSends == 2
MaxOrphanTimers == 1
MaxLeakedHeartbeats == 1
MaxTime == 5
MaxStopEvents == 2
MaxItems == 3
MaxEvents == 2
MaxSessionCost == 100
MaxSamples == 2
MaxChannels == 3

\* ------------------------------------------------------ program constants
maxReconnectAttempts == 5
reconnectInterval == 1000

Null == 0
Sockets == 1..MaxSockets

\* WebSocketMessageType (types/index.ts)
VOICE_INPUT == "voice_input"
TEXT_INPUT == "text_input"
SYSTEM_COMMAND == "system_command"
AGENT_RESPONSE == "agent_response"
AGENT_RESPONSE_STREAM == "agent_response_stream"
TOOL_EXECUTION == "tool_execution"
SYSTEM_STATUS == "system_status"
COST_UPDATE == "cost_update"
ERROR == "error"
HEARTBEAT == "heartbeat"
CONNECTION_STATUS == "connection_status"

WebSocketMessageType ==
  { VOICE_INPUT, TEXT_INPUT, SYSTEM_COMMAND, AGENT_RESPONSE,
    AGENT_RESPONSE_STREAM, TOOL_EXECUTION, SYSTEM_STATUS, COST_UPDATE,
    ERROR, HEARTBEAT, CONNECTION_STATUS }

\* the type the caller passes to sendMessage (sendTextMessage); sendMessage
\* does not look at the type
CallerTypes == { TEXT_INPUT }

\* type strings that arrive from the server: the enum and one outside it
InboundTypes == WebSocketMessageType \cup { "unknown_type" }

\* the inbound payloads of the lifecycle specification; the dispatch
\* specification below receives every type
LifecycleInbound == { "malformed", HEARTBEAT }

\* values of state.lastError
ErrNone == "null"
ErrConnection == "Connection error"
ErrSend == "Failed to send message"
ErrParse == "Failed to parse message"
ErrMaxAttempts == "Max reconnection attempts reached"
ErrConstruct == "new WebSocket threw"
ErrServerUnknown == "Unknown error received from server"

\* the session ids useWebSocket can be created with
SessionIds == { "session_a", "session_b" }
DefaultSession == "session_a"

VARIABLES
  connected,          \* state.connected
  connecting,         \* state.connecting
  reconnectAttempts,  \* state.reconnectAttempts
  lastError,          \* state.lastError
  sessionId,          \* state.sessionId
  ws,                 \* ws.value: a socket or Null
  socks,              \* the WebSocket objects that still have events to deliver
  messageQueue,       \* messageQueue.value
  reconnectTimer,     \* the variable reconnectTimer: "none", "pending", "fired"
  orphanTimers,       \* pending reconnect timeouts whose id was overwritten
  heartbeatTimer,     \* the variable heartbeatTimer holds a live interval
  leakedHeartbeats,   \* live heartbeat intervals whose id was overwritten
  wire,               \* history: messages written with ws.send, in order
  nextSeq,            \* history: number of the next sendMessage call
  schedSinceOpen,     \* history: reconnects scheduled since the last open
  schedSinceReset,    \* history: same, since the last open or disconnect()
  userDisconnected,   \* history: disconnect() was the caller's last lifecycle call
  lastOp              \* history: the last operation and what it returned

\* The voice activity detector (useVoiceActivityDetection.ts).  Time is
\* counted in whole units; a timer variable holds 0 (null) or the time at
\* which the timeout is due.
VARIABLES
  vad,                \* state.value, the timer and time variables, the recorder
  defaultOptions,     \* defaultOptions: the VADOptions in force
  now,                \* Date.now()
  vadOp,              \* history: the last detector operation and its sample
  voicedSince,        \* history: time of the first sample of the voiced run, or 0
  silentSince,        \* history: time of the first sample of the silent run, or 0
  voicedSeen,         \* history: a sample above the threshold has been handled
  startedBy,          \* history: the operation that last emitted SpeechStarted
  runEvents           \* history: events emitted since the detector was last armed

\* The recorder behind the detector (useAudioRecording) and the path of a
\* finished recording to the server (useVoiceProcessing, ChatView).
VARIABLES
  wav,                \* an AudioBuffer and the WAV file audioBufferToWav
                      \* made of it (no bytes: not converted yet)
  capture             \* the MediaRecorder stop events not yet delivered, and
                      \* the recording the last step sent as voice_input

\* Audio playback (useAudioPlayback in useAgentium.ts).  An item is a call
\* of queueAudio, numbered in the order of the calls; playAudio makes one
\* Audio element per item.
VARIABLES
  playback,           \* state.value: isPlaying, currentAudio, volume, queue, error
  audios,             \* the items and their Audio elements
  playOp,             \* history: the last playback operation
  playOrder           \* history: the items in the order playAudio played them

\* The cost ledger (costSummary of the application store).
VARIABLES
  costSummary,        \* costSummary.value
  store,              \* connected, isTyping and voiceEnabled of the store
  awaiting,           \* the socket that carried a text message the server has
                      \* not answered yet, or Null
  ledgerOp            \* history: the last cost message or call of useAgentium

transportVars ==
  << connected, connecting, reconnectAttempts, lastError, sessionId, ws, socks,
     messageQueue, reconnectTimer, orphanTimers, heartbeatTimer,
     leakedHeartbeats, wire, nextSeq,
     schedSinceOpen, schedSinceReset, userDisconnected, lastOp >>

vadVars == << vad, defaultOptions, now, vadOp, voicedSince, silentSince,
              voicedSeen, startedBy, runEvents >>

playbackVars == << playback, audios, playOp, playOrder >>

ledgerVars == << costSummary, store, awaiting, ledgerOp >>

captureVars == << capture, wav >>

vars == << transportVars, vadVars, captureVars, playbackVars, ledgerVars >>

\* the fields of WebSocketState and the socket reference
stateVars == << connected, connecting, reconnectAttempts, lastError >>
timerVars == << reconnectTimer, orphanTimers, heartbeatTimer, leakedHeartbeats >>
historyVars == << schedSinceOpen, schedSinceReset, userDisconnected >>

FreeSock == [rs |-> "FREE", opened |-> FALSE]

\* op: the operation; arg: the branch it took; ret: what it returned;
\* delay: the backoff delay it scheduled; routed: the switch cases it entered;
\* cb: the members of callbacks.value it invoked
OpCb(o, a, d, r, h, c) ==
  [op |-> o, arg |-> a, delay |-> d, ret |-> r, routed |-> h, cb |-> c]

Op(o, a, d, r, h) == OpCb(o, a, d, r, h, {})

Bool(b) == IF b THEN "true" ELSE "false"

Min(S) == CHOOSE x \in S : \A y \in S : x <= y

RECURSIVE Pow2(_)
Pow2(n) == IF n <= 0 THEN 1 ELSE 2 * Pow2(n - 1)

\* a limit that lets one attempt too many through
canReconnect_inclusive(attempts) == attempts <= maxReconnectAttempts

\* canReconnect = computed(() => state.reconnectAttempts < maxReconnectAttempts)
canReconnect(attempts) == attempts < maxReconnectAttempts

\* ws.value?.readyState === WebSocket.OPEN
wsIsOpen(w, ss) == w # Null /\ ss[w].rs = "OPEN"

TransportInit ==
  /\ connected = FALSE
  /\ connecting = FALSE
  /\ reconnectAttempts = 0
  /\ lastError = ErrNone
  /\ ws = Null
  /\ socks = [s \in Sockets |-> FreeSock]
  /\ messageQueue = << >>
  /\ reconnectTimer = "none"
  /\ orphanTimers = 0
  /\ heartbeatTimer = FALSE
  /\ leakedHeartbeats = 0
  /\ wire = << >>
  /\ nextSeq = 1
  /\ schedSinceOpen = 0
  /\ schedSinceReset = 0
  /\ userDisconnected = FALSE
  /\ lastOp = Op("init", "", 0, "none", {})

\* audio levels, in units in which every threshold below is 1
Levels == 0..2

\* VADOptions: one with the proportions of the defaults (silenceTimeout
\* above minSpeechDuration, maxSpeechDuration above both), one with a
\* silenceTimeout below minSpeechDuration, one with maxSpeechDuration below
\* minSpeechDuration
DefaultOptions ==
  [threshold |-> 1, silenceTimeout |-> 2, speechTimeout |-> 1,
   minSpeechDuration |-> 1, maxSpeechDuration |-> 3]

Configs ==
  { DefaultOptions,
    [threshold |-> 1, silenceTimeout |-> 1, speechTimeout |-> 1,
     minSpeechDuration |-> 3, maxSpeechDuration |-> 4],
    [threshold |-> 1, silenceTimeout |-> 2, speechTimeout |-> 1,
     minSpeechDuration |-> 3, maxSpeechDuration |-> 2] }

\* useVoiceActivityDetection(audioRecording, options): the state after
\* construction; emitted holds the events of the last operation
VadInit(options) ==
  /\ vad = [isListening |-> FALSE, isActive |-> FALSE, speechDetected |-> FALSE,
            silenceDuration |-> 0, speechDuration |-> 0,
            silenceTimer |-> 0, speechTimer |-> 0, maxDurationTimer |-> 0,
            lastAudioLevel |-> 0, speechStartTime |-> 0, silenceStartTime |-> 0,
            isRecording |-> FALSE, emitted |-> << >>]
  /\ defaultOptions = options
  /\ now = 1
  /\ vadOp = [op |-> "init", level |-> 0]
  /\ voicedSince = 0
  /\ silentSince = 0
  /\ voicedSeen = FALSE
  /\ startedBy = "none"
  /\ runEvents = << >>
  /\ capture = [stopEvents |-> << >>, voiceInput |-> "none"]

Items == 1..MaxItems

\* an item that queueAudio has not been called for yet; elements are made
\* paused, with the volume playAudio gives them
NoItem ==
  [st |-> "none", paused |-> TRUE, events |-> << >>, volume |-> 0,
   via |-> "none"]

\* volumes in tenths: defaultOptions.volume is 1.0
FullVolume == 10

\* useAudioPlayback(options): the state after construction
PlaybackInit ==
  /\ playback = [isPlaying |-> FALSE, currentAudio |-> Null,
                 volume |-> FullVolume, queue |-> << >>, error |-> FALSE]
  /\ audios = [i \in Items |-> NoItem]
  /\ playOp = [op |-> "init", item |-> Null, cb |-> << >>]
  /\ playOrder = << >>

\* no AudioBuffer has been decoded
NoWav == [frame |-> [sampleRate |-> 0, channels |-> << >>], bytes |-> << >>]

\* the store's costSummary after construction, in whole currency units
LedgerInit ==
  /\ costSummary = [sessionCost |-> 0, budgetLimit |-> 100,
                    budgetRemaining |-> 100]
  /\ store = [connected |-> FALSE, isTyping |-> FALSE, voiceEnabled |-> TRUE]
  /\ awaiting = Null
  /\ ledgerOp = [op |-> "init", data |-> << >>]

\* useWebSocket(sessionId): the state after construction
Init ==
  /\ TransportInit /\ sessionId = DefaultSession /\ VadInit(DefaultOptions)
  /\ PlaybackInit /\ LedgerInit /\ wav = NoWav

InitSession ==
  /\ TransportInit /\ sessionId \in SessionIds /\ VadInit(DefaultOptions)
  /\ PlaybackInit /\ LedgerInit /\ wav = NoWav

InitVad ==
  /\ TransportInit /\ sessionId = DefaultSession
  /\ \E options \in Configs : VadInit(options)
  /\ PlaybackInit /\ LedgerInit /\ wav = NoWav


\* ------------------------------------------------------------ sendMessage
\* a catch branch that also gives the connection up and schedules a reconnect
sendCatch_reconnects(st) ==
  [st EXCEPT !.lastError = ErrSend, !.ret = "false", !.arg = "failed",
             !.connected = FALSE, !.reconnectTimer = "pending"]

\* The branch of sendMessage taken when ws.send (or JSON.stringify) throws:
\* only lastError is written and false is returned.
sendCatch(st) == [st EXCEPT !.lastError = ErrSend, !.ret = "false", !.arg = "failed"]

\* a sendMessage that stamps each message with an id of its own
sendMessage_ownSessionPerMessage(st, type, throws) ==
  LET message == [seq |-> st.seq, type |-> type,
                  session_id |-> IF st.seq = 1 THEN st.sessionId ELSE "session_new"]
  IN IF st.connected /\ wsIsOpen(st.ws, st.socks)
     THEN IF throws
          THEN sendCatch(st)
          ELSE [st EXCEPT !.wire = Append(st.wire, message),
                          !.ret = "true", !.arg = "sent"]
     ELSE [st EXCEPT !.queue = Append(st.queue, message),
                     !.ret = "false", !.arg = "queued"]

\* sendMessage(type, data) on the state st; throws says whether the socket
\* write raises.  The result carries the new queue, wire and lastError and
\* the value returned to the caller.
sendMessage(st, type, throws) ==
  LET message == [seq |-> st.seq, type |-> type, session_id |-> st.sessionId] IN
  IF st.connected /\ wsIsOpen(st.ws, st.socks)
  THEN IF throws
       THEN sendCatch(st)
       ELSE [st EXCEPT !.wire = Append(st.wire, message),
                       !.ret = "true", !.arg = "sent"]
  ELSE [st EXCEPT !.queue = Append(st.queue, message),
                  !.ret = "false", !.arg = "queued"]

\* the part of the program state sendMessage reads and writes
SendState ==
  [connected |-> connected, connecting |-> connecting,
   reconnectAttempts |-> reconnectAttempts, reconnectTimer |-> reconnectTimer,
   ws |-> ws, socks |-> socks, queue |-> messageQueue, wire |-> wire,
   lastError |-> lastError, sessionId |-> sessionId, seq |-> nextSeq,
   ret |-> "none", arg |-> ""]

ApplySend(r, opname) ==
  /\ connected' = r.connected
  /\ connecting' = r.connecting
  /\ reconnectAttempts' = r.reconnectAttempts
  /\ reconnectTimer' = r.reconnectTimer
  /\ messageQueue' = r.queue
  /\ wire' = r.wire
  /\ lastError' = r.lastError
  /\ nextSeq' = nextSeq + 1
  /\ lastOp' = Op(opname, r.arg, 0, r.ret, {})
  /\ UNCHANGED << sessionId, ws, socks, orphanTimers, heartbeatTimer,
                  leakedHeartbeats >>

\* the caller sends a message of one of its types
Send(type, throws) ==
  /\ nextSeq <= MaxSends
  /\ throws => (connected /\ wsIsOpen(ws, socks))
  /\ ApplySend(sendMessage(SendState, type, throws), "send")

\* --------------------------------------------------- processMessageQueue
\* The while loop of processMessageQueue, entered with state.connected true.
\* Each round shifts the head; it is written to the socket only if ws is
\* OPEN, and a write that throws puts the message back and leaves the loop.
\* throwAt = k > 0: the k-th write throws; 0: none does.
RECURSIVE processMessageQueue(_, _, _, _)
processMessageQueue(q, w, isOpen, throwAt) ==
  IF Len(q) > 0
  THEN LET message == Head(q)
           rest == Tail(q)
       IN IF isOpen
          THEN IF throwAt = 1
               THEN [queue |-> << message >> \o rest, wire |-> w]
               ELSE processMessageQueue(rest, Append(w, message), isOpen,
                                        IF throwAt = 0 THEN 0 ELSE throwAt - 1)
          ELSE processMessageQueue(rest, w, isOpen, throwAt)
  ELSE [queue |-> q, wire |-> w]

\* ---------------------------------------------------------------- connect
\* a guard that forgets the connecting flag
connectGuard_connectedOnly(cing, cted) == cted

\* if (state.connecting || state.connected) return state.connected
connectGuard(cing, cted) == cing \/ cted

\* a closed socket that ws still references is dropped when ws is reassigned
release(ss, w) ==
  IF w # Null /\ ss[w].rs = "CLOSED" THEN [ss EXCEPT ![w] = FreeSock] ELSE ss

freeSlots(ss) == { s \in Sockets : ss[s].rs = "FREE" }

\* connect(): what it writes and returns; throws: new WebSocket(url) raises
connect(throws) ==
  IF connectGuard(connecting, connected)
  THEN [connecting |-> connecting, lastError |-> lastError, ws |-> ws,
        socks |-> socks, ret |-> Bool(connected), arg |-> "early"]
  ELSE IF throws
  THEN [connecting |-> FALSE, lastError |-> ErrConstruct, ws |-> ws,
        socks |-> socks, ret |-> "false", arg |-> "throw"]
  ELSE LET released == release(socks, ws)
           slot == Min(freeSlots(released))
       IN [connecting |-> TRUE, lastError |-> ErrNone, ws |-> slot,
           socks |-> [released EXCEPT ![slot] =
                         [rs |-> "CONNECTING", opened |-> FALSE]],
           ret |-> "true", arg |-> "new"]

connectEnabled(throws) ==
  IF connectGuard(connecting, connected)
  THEN ~throws
  ELSE throws \/ freeSlots(release(socks, ws)) # {}

ApplyConnect(r, opname) ==
  /\ connecting' = r.connecting
  /\ lastError' = r.lastError
  /\ ws' = r.ws
  /\ socks' = r.socks
  /\ lastOp' = Op(opname, r.arg, 0, r.ret, {})
  /\ UNCHANGED << connected, reconnectAttempts, sessionId, messageQueue,
                  heartbeatTimer, leakedHeartbeats, wire, nextSeq >>

\* the caller calls connect()
Connect(throws) ==
  /\ connectEnabled(throws)
  /\ ApplyConnect(connect(throws), "connect")
  /\ UNCHANGED << reconnectTimer, orphanTimers >>

\* a reconnect timeout fires and calls connect(); the variable reconnectTimer
\* keeps the id of the fired timeout
ReconnectTimerFires(tracked, throws) ==
  /\ IF tracked
     THEN /\ reconnectTimer = "pending"
          /\ reconnectTimer' = "fired"
          /\ UNCHANGED orphanTimers
     ELSE /\ orphanTimers > 0
          /\ orphanTimers' = orphanTimers - 1
          /\ UNCHANGED reconnectTimer
  /\ connectEnabled(throws)
  /\ ApplyConnect(connect(throws), "timer")

\* ------------------------------------------------------------- disconnect
\* ws.value.close(1000, ...): a socket that is CONNECTING or OPEN becomes
\* CLOSING and its close event is still to come
closeSocket(ss, w) ==
  IF w = Null THEN ss
  ELSE IF ss[w].rs \in {"CONNECTING", "OPEN"} THEN [ss EXCEPT ![w].rs = "CLOSING"]
  ELSE release(ss, w)

Disconnect ==
  /\ reconnectTimer' = "none"
  /\ heartbeatTimer' = FALSE
  /\ socks' = closeSocket(socks, ws)
  /\ ws' = Null
  /\ connected' = FALSE
  /\ connecting' = FALSE
  /\ reconnectAttempts' = 0
  /\ lastOp' = Op("disconnect", "", 0, "none", {})
  /\ UNCHANGED << lastError, sessionId, messageQueue, orphanTimers,
                  leakedHeartbeats, wire, nextSeq >>

\* ------------------------------------------------------- attemptReconnect
\* a backoff that grows linearly
reconnectDelay_linear(attempts) == reconnectInterval * attempts

\* delay = reconnectInterval * Math.pow(2, state.reconnectAttempts - 1),
\* evaluated after the increment
reconnectDelay(attempts) == reconnectInterval * Pow2(attempts - 1)

\* attemptReconnect(): either records that the attempts are used up, or
\* counts the attempt and schedules connect() after the backoff delay
attemptReconnect(attempts, err) ==
  IF ~canReconnect(attempts)
  THEN [attempts |-> attempts, lastError |-> ErrMaxAttempts,
        scheduled |-> FALSE, delay |-> 0]
  ELSE [attempts |-> attempts + 1, lastError |-> err,
        scheduled |-> TRUE, delay |-> reconnectDelay(attempts + 1)]

\* the tail of ws.onclose: if (!event.wasClean && canReconnect.value)
oncloseReconnect(wasClean, attempts, err) ==
  IF ~wasClean /\ canReconnect(attempts)
  THEN attemptReconnect(attempts, err)
  ELSE [attempts |-> attempts, lastError |-> err,
        scheduled |-> FALSE, delay |-> 0]

\* ---------------------------------------------------------- socket events
\* the open event of socket s: ws.onopen.  The queue is flushed through
\* ws.value, which is the socket of the most recent connect().
SockOpen(s, throwAt) ==
  /\ socks[s].rs = "CONNECTING"
  /\ LET ss == [socks EXCEPT ![s] = [rs |-> "OPEN", opened |-> TRUE]]
         isOpen == wsIsOpen(ws, ss)
         flushed == processMessageQueue(messageQueue, wire, isOpen, throwAt)
     IN /\ throwAt > 0 => isOpen
        /\ heartbeatTimer => leakedHeartbeats < MaxLeakedHeartbeats
        /\ socks' = ss
        /\ connected' = TRUE
        /\ connecting' = FALSE
        /\ reconnectAttempts' = 0
        /\ lastError' = ErrNone
        /\ messageQueue' = flushed.queue
        /\ wire' = flushed.wire
        /\ heartbeatTimer' = TRUE
        /\ leakedHeartbeats' = IF heartbeatTimer THEN leakedHeartbeats + 1
                                                 ELSE leakedHeartbeats
        /\ lastOp' = OpCb("open", IF throwAt > 0 THEN "threw" ELSE "", 0, "none",
                          {}, {"onConnectionChange"})
        /\ UNCHANGED << sessionId, ws, reconnectTimer, orphanTimers, nextSeq >>

\* the browser starts a closing handshake on an open socket: readyState is
\* CLOSING, no handler runs yet
SockClosing(s) ==
  /\ socks[s].rs = "OPEN"
  /\ socks' = [socks EXCEPT ![s].rs = "CLOSING"]
  /\ lastOp' = Op("closing", "", 0, "none", {})
  /\ UNCHANGED << stateVars, sessionId, ws, messageQueue, timerVars, wire,
                  nextSeq >>

\* the error event of a failing socket s, with caller code still to run
\* before its close event (the onError callback itself, or a continuation
\* that runs when the handler returns): ws.onerror.  readyState is CLOSED
\* by then; FAILED is a CLOSED socket whose close event is still to come.
SockError(s) ==
  /\ socks[s].rs \in {"CONNECTING", "OPEN", "CLOSING"}
  /\ socks' = [socks EXCEPT ![s].rs = "FAILED"]
  /\ lastError' = ErrConnection
  /\ connecting' = FALSE
  /\ lastOp' = OpCb("error", "", 0, "none", {}, {"onError"})
  /\ UNCHANGED << connected, reconnectAttempts, sessionId, ws, messageQueue,
                  timerVars, wire, nextSeq >>

\* the close event of socket s, preceded by its error event when the
\* connection failed: ws.onerror then ws.onclose.  A socket that never
\* opened always fails (error, wasClean = false).
SockClose(s, wasClean, withError) ==
  /\ socks[s].rs \in {"CONNECTING", "OPEN", "CLOSING", "FAILED"}
  /\ socks[s].rs = "FAILED" => (~wasClean /\ ~withError)
  /\ (~socks[s].opened /\ socks[s].rs # "FAILED") => (~wasClean /\ withError)
  /\ wasClean => ~withError
  /\ LET errAfterOnerror == IF withError THEN ErrConnection ELSE lastError
         r == oncloseReconnect(wasClean, reconnectAttempts, errAfterOnerror)
     IN /\ (r.scheduled /\ reconnectTimer = "pending")
              => orphanTimers < MaxOrphanTimers
        /\ socks' = [socks EXCEPT ![s] =
                       IF ws = s THEN [rs |-> "CLOSED", opened |-> socks[s].opened]
                                 ELSE FreeSock]
        /\ connected' = FALSE
        /\ connecting' = FALSE
        /\ heartbeatTimer' = FALSE
        /\ reconnectAttempts' = r.attempts
        /\ lastError' = r.lastError
        /\ reconnectTimer' = IF r.scheduled THEN "pending" ELSE reconnectTimer
        /\ orphanTimers' = IF r.scheduled /\ reconnectTimer = "pending"
                           THEN orphanTimers + 1 ELSE orphanTimers
        /\ lastOp' = OpCb("close", IF wasClean THEN "clean" ELSE "unclean",
                          r.delay, Bool(r.scheduled), {},
                          IF withError THEN {"onError", "onConnectionChange"}
                                       ELSE {"onConnectionChange"})
        /\ UNCHANGED << sessionId, ws, messageQueue, leakedHeartbeats, wire,
                        nextSeq >>

\* ---------------------------------------------------------- handleMessage
Categories == { AGENT_RESPONSE, COST_UPDATE, SYSTEM_STATUS, TOOL_EXECUTION,
                ERROR, HEARTBEAT, CONNECTION_STATUS }

ErrFields == { "error_message", "message", "none" }

\* message.data.error_message || message.data.message || 'Unknown error ...'
serverError(errField) ==
  IF errField = "none" THEN ErrServerUnknown ELSE "server: " \o errField

\* a dispatch whose heartbeat case clears the error of the session
handleMessage_heartbeatClearsError(type, errField, err) ==
  IF type = HEARTBEAT
  THEN [routed |-> {HEARTBEAT}, lastError |-> ErrNone, callbacks |-> {"onMessage"}]
  ELSE IF type \in Categories
  THEN [routed |-> {type},
        lastError |-> IF type = ERROR THEN serverError(errField) ELSE err,
        callbacks |-> IF type = ERROR THEN {"onMessage", "onError"}
                                      ELSE {"onMessage"}]
  ELSE [routed |-> {}, lastError |-> err, callbacks |-> {"onMessage"}]

\* a dispatch whose default case falls into the error case
handleMessage_defaultIsError(type, errField, err) ==
  IF type \in Categories
  THEN [routed |-> {type}, callbacks |-> {"onMessage"},
        lastError |-> IF type = ERROR THEN serverError(errField) ELSE err]
  ELSE [routed |-> {ERROR}, callbacks |-> {"onMessage", "onError"},
        lastError |-> serverError(errField)]

\* handleMessage: callbacks.onMessage, then the switch: the cases entered
\* for a message of this type, the callbacks invoked, and the value of
\* lastError afterwards
handleMessage(type, errField, err) ==
  IF type = AGENT_RESPONSE
  THEN [routed |-> {AGENT_RESPONSE}, lastError |-> err,
        callbacks |-> {"onMessage", "onAgentResponse"}]
  ELSE IF type = COST_UPDATE
  THEN [routed |-> {COST_UPDATE}, lastError |-> err,
        callbacks |-> {"onMessage", "onCostUpdate"}]
  ELSE IF type = SYSTEM_STATUS
  THEN [routed |-> {SYSTEM_STATUS}, lastError |-> err,
        callbacks |-> {"onMessage", "onSystemStatus"}]
  ELSE IF type = TOOL_EXECUTION
  THEN [routed |-> {TOOL_EXECUTION}, lastError |-> err,
        callbacks |-> {"onMessage", "onToolExecution"}]
  ELSE IF type = ERROR
  THEN [routed |-> {ERROR}, lastError |-> serverError(errField),
        callbacks |-> {"onMessage", "onError"}]
  ELSE IF type = HEARTBEAT
  THEN [routed |-> {HEARTBEAT}, lastError |-> err, callbacks |-> {"onMessage"}]
  ELSE IF type = CONNECTION_STATUS
  THEN [routed |-> {CONNECTION_STATUS}, lastError |-> err,
        callbacks |-> {"onMessage"}]
  ELSE [routed |-> {}, lastError |-> err, callbacks |-> {"onMessage"}]

\* the catch branch of ws.onmessage, entered when JSON.parse throws
onmessageCatch(err) == [routed |-> {}, lastError |-> ErrParse, callbacks |-> {}]

\* the message event of socket s: ws.onmessage.  type = "malformed" stands
\* for a payload JSON.parse rejects.
SockMessage(s, type, errField) ==
  /\ socks[s].rs = "OPEN" \/ (socks[s].rs = "CLOSING" /\ socks[s].opened)
  /\ errField # "none" => type = ERROR
  /\ LET r == IF type = "malformed"
              THEN onmessageCatch(lastError)
              ELSE handleMessage(type, errField, lastError)
     IN /\ lastError' = r.lastError
        /\ lastOp' = OpCb("message", type, 0, "none", r.routed, r.callbacks)
  /\ UNCHANGED << connected, connecting, reconnectAttempts, sessionId, ws,
                  socks, messageQueue, timerVars, wire, nextSeq >>

\* -------------------------------------------------------------- heartbeat
\* a heartbeat interval (the one heartbeatTimer holds, or a leaked one)
\* ticks: if (state.connected) sendMessage(HEARTBEAT, ...)
HeartbeatTick(throws) ==
  /\ heartbeatTimer \/ leakedHeartbeats > 0
  /\ throws => (connected /\ wsIsOpen(ws, socks))
  /\ IF connected
     THEN /\ nextSeq <= MaxSends
          /\ ApplySend(sendMessage(SendState, HEARTBEAT, throws), "heartbeat")
     ELSE /\ lastOp' = Op("heartbeat", "idle", 0, "none", {})
          /\ UNCHANGED << stateVars, sessionId, ws, socks, messageQueue,
                          timerVars, wire, nextSeq >>

\* ------------------------------------------------------------ histories
Saturate(n) == IF n < maxReconnectAttempts + 1 THEN n + 1 ELSE n

Scheduled(op) == op.op = "close" /\ op.ret = "true"

\* The history variables of the lifecycle, written from the operation that
\* has just run: the reconnects scheduled since the last open, the same
\* since the last open or disconnect(), and whether disconnect() is the
\* caller's most recent connect()/disconnect() call.
History ==
  /\ schedSinceOpen' = IF lastOp'.op = "open" THEN 0
                       ELSE IF Scheduled(lastOp') THEN Saturate(schedSinceOpen)
                       ELSE schedSinceOpen
  /\ schedSinceReset' = IF lastOp'.op \in {"open", "disconnect"} THEN 0
                        ELSE IF Scheduled(lastOp') THEN Saturate(schedSinceReset)
                        ELSE schedSinceReset
  /\ userDisconnected' = IF lastOp'.op = "disconnect" THEN TRUE
                         ELSE IF lastOp'.op = "connect" THEN FALSE
                         ELSE userDisconnected

NoHistory == UNCHANGED historyVars

\* the transport and the detector share no state
NoVad == UNCHANGED << vadVars, captureVars, playbackVars, ledgerVars >>

\* ------------------------------------------------------- specifications
\* The connection lifecycle: connect, disconnect, the socket events and the
\* reconnect timer, with the lifecycle histories.  Nothing is sent here; that
\* sendMessage leaves the connection fields alone is checked under SpecSend.
NextLifecycle ==
  \/ \E throws \in BOOLEAN : Connect(throws) /\ History /\ NoVad
  \/ Disconnect /\ History /\ NoVad
  \/ \E tracked \in BOOLEAN, throws \in BOOLEAN :
        ReconnectTimerFires(tracked, throws) /\ History /\ NoVad
  \/ \E s \in Sockets : SockOpen(s, 0) /\ History /\ NoVad
  \/ \E s \in Sockets : SockClosing(s) /\ History /\ NoVad
  \/ \E s \in Sockets, wasClean \in BOOLEAN, withError \in BOOLEAN :
        SockClose(s, wasClean, withError) /\ History /\ NoVad
  \/ \E s \in Sockets, type \in LifecycleInbound :
        SockMessage(s, type, "none") /\ History /\ NoVad

SpecLifecycle == Init /\ [][NextLifecycle]_vars

\* The outbound path: the lifecycle together with sendMessage, the heartbeat
\* interval and the flush of the queue on open.  The lifecycle histories are
\* not kept here.
NextQueue ==
  \/ \E throws \in BOOLEAN : Connect(throws) /\ NoHistory /\ NoVad
  \/ Disconnect /\ NoHistory /\ NoVad
  \/ \E type \in CallerTypes, throws \in BOOLEAN : Send(type, throws) /\ NoHistory /\ NoVad
  \/ \E tracked \in BOOLEAN, throws \in BOOLEAN :
        ReconnectTimerFires(tracked, throws) /\ NoHistory /\ NoVad
  \/ \E s \in Sockets, throwAt \in 0..MaxSends : SockOpen(s, throwAt) /\ NoHistory /\ NoVad
  \/ \E s \in Sockets : SockClosing(s) /\ NoHistory /\ NoVad
  \/ \E s \in Sockets, wasClean \in BOOLEAN, withError \in BOOLEAN :
        SockClose(s, wasClean, withError) /\ NoHistory /\ NoVad
  \/ \E throws \in BOOLEAN : HeartbeatTick(throws) /\ NoHistory /\ NoVad

SpecQueue == Init /\ [][NextQueue]_vars

\* The outbound path of a session the caller never disconnects: one socket
\* at a time, with every send, flush, close and reconnect.
NextSend ==
  \/ \E throws \in BOOLEAN : Connect(throws) /\ NoHistory /\ NoVad
  \/ \E type \in CallerTypes, throws \in BOOLEAN : Send(type, throws) /\ NoHistory /\ NoVad
  \/ \E tracked \in BOOLEAN, throws \in BOOLEAN :
        ReconnectTimerFires(tracked, throws) /\ NoHistory /\ NoVad
  \/ \E s \in Sockets, throwAt \in 0..MaxSends : SockOpen(s, throwAt) /\ NoHistory /\ NoVad
  \/ \E s \in Sockets : SockClosing(s) /\ NoHistory /\ NoVad
  \/ \E s \in Sockets, wasClean \in BOOLEAN, withError \in BOOLEAN :
        SockClose(s, wasClean, withError) /\ NoHistory /\ NoVad
  \/ \E throws \in BOOLEAN : HeartbeatTick(throws) /\ NoHistory /\ NoVad

SpecSend == Init /\ [][NextSend]_vars

\* the same outbound path for every session id the transport can be given
SpecSession == InitSession /\ [][NextSend]_vars

\* Inbound dispatch: every type string the server can send, on the sockets
\* that connect() opens.
NextDispatch ==
  \/ Connect(FALSE) /\ NoHistory /\ NoVad
  \/ Disconnect /\ NoHistory /\ NoVad
  \/ \E s \in Sockets : SockOpen(s, 0) /\ NoHistory /\ NoVad
  \/ \E s \in Sockets, wasClean \in BOOLEAN, withError \in BOOLEAN :
        SockClose(s, wasClean, withError) /\ NoHistory /\ NoVad
  \/ \E s \in Sockets, type \in InboundTypes \cup {"malformed"}, errField \in ErrFields :
        SockMessage(s, type, errField) /\ NoHistory /\ NoVad

SpecDispatch == Init /\ [][NextDispatch]_vars

\* Inbound dispatch on the connections of a session the caller does not
\* disconnect: every type string, on open sockets and on sockets whose
\* closing handshake has begun.
NextInbound ==
  \/ Connect(FALSE) /\ NoHistory /\ NoVad
  \/ \E s \in Sockets : SockOpen(s, 0) /\ NoHistory /\ NoVad
  \/ \E s \in Sockets : SockClosing(s) /\ NoHistory /\ NoVad
  \/ \E s \in Sockets, wasClean \in BOOLEAN, withError \in BOOLEAN :
        SockClose(s, wasClean, withError) /\ NoHistory /\ NoVad
  \/ \E s \in Sockets, type \in InboundTypes \cup {"malformed"}, errField \in ErrFields :
        SockMessage(s, type, errField) /\ NoHistory /\ NoVad

SpecInbound == Init /\ [][NextInbound]_vars

\* The reconnect cycle with its histories: connect, disconnect, open, close
\* and the reconnect timer, without inbound messages.
NextBackoff ==
  \/ \E throws \in BOOLEAN : Connect(throws) /\ History /\ NoVad
  \/ Disconnect /\ History /\ NoVad
  \/ \E tracked \in BOOLEAN, throws \in BOOLEAN :
        ReconnectTimerFires(tracked, throws) /\ History /\ NoVad
  \/ \E s \in Sockets : SockOpen(s, 0) /\ History /\ NoVad
  \/ \E s \in Sockets, wasClean \in BOOLEAN, withError \in BOOLEAN :
        SockClose(s, wasClean, withError) /\ History /\ NoVad

SpecBackoff == Init /\ [][NextBackoff]_vars

\* ------------------------------------------------ voice activity detector
\* a sample at the threshold counts as voiced
voiced_atThreshold(level, threshold) == level >= threshold

\* level > defaultOptions.threshold
voiced(level, threshold) == level > threshold

Emit(v, event) == [v EXCEPT !.emitted = Append(v.emitted, event)]

clearAllTimers(v) ==
  [v EXCEPT !.silenceTimer = 0, !.speechTimer = 0, !.maxDurationTimer = 0]

\* audioRecording.stopRecording(): a recorder that is not recording is left
\* alone
stopRecording(v) == [v EXCEPT !.isRecording = FALSE]

resetState(v) ==
  clearAllTimers([v EXCEPT !.speechDetected = FALSE, !.isActive = FALSE,
                           !.silenceDuration = 0, !.speechDuration = 0,
                           !.speechStartTime = 0, !.silenceStartTime = 0])

\* an endSpeechRecording that skips the minimum-duration check
endSpeechRecording_noMinimum(v, t, options) ==
  IF ~v.speechDetected THEN v
  ELSE clearAllTimers(
         Emit([stopRecording(v) EXCEPT !.speechDetected = FALSE,
                                       !.isActive = FALSE,
                                       !.speechDuration = t - v.speechStartTime],
              "SpeechEnded"))

\* endSpeechRecording() at time t
endSpeechRecording(v, t, options) ==
  IF ~v.speechDetected THEN v
  ELSE LET speechDuration == t - v.speechStartTime IN
       IF speechDuration < options.minSpeechDuration
       THEN resetState(stopRecording(v))
       ELSE clearAllTimers(
              Emit([stopRecording(v) EXCEPT !.speechDetected = FALSE,
                                            !.isActive = FALSE,
                                            !.speechDuration = speechDuration],
                   "SpeechEnded"))

\* a startSpeechRecording that does not look at speechDetected
startSpeechRecording_whileSpeaking(v, t, options, ok) ==
  IF ~v.isListening THEN v
  ELSE LET started == v.isRecording \/ ok IN
       IF started
       THEN Emit([v EXCEPT !.speechDetected = TRUE, !.isActive = TRUE,
                           !.speechStartTime = t, !.isRecording = TRUE,
                           !.maxDurationTimer = t + options.maxSpeechDuration],
                 "SpeechStarted")
       ELSE [v EXCEPT !.speechDetected = FALSE, !.isActive = FALSE,
                      !.speechStartTime = t]

\* a startSpeechRecording that does not look at the result of startRecording
startSpeechRecording_ignoresRecorder(v, t, options, ok) ==
  IF ~v.isListening \/ v.speechDetected THEN v
  ELSE Emit([v EXCEPT !.speechDetected = TRUE, !.isActive = TRUE,
                      !.speechStartTime = t,
                      !.isRecording = v.isRecording \/ ok,
                      !.maxDurationTimer = t + options.maxSpeechDuration],
            "SpeechStarted")

\* startSpeechRecording() at time t; ok: the recorder starts when it is asked
\* to (audioRecording.startRecording() returns true while it is recording)
startSpeechRecording(v, t, options, ok) ==
  IF ~v.isListening \/ v.speechDetected THEN v
  ELSE LET started == v.isRecording \/ ok IN
       IF started
       THEN Emit([v EXCEPT !.speechDetected = TRUE, !.isActive = TRUE,
                           !.speechStartTime = t, !.isRecording = TRUE,
                           !.maxDurationTimer = t + options.maxSpeechDuration],
                 "SpeechStarted")
       ELSE [v EXCEPT !.speechDetected = FALSE, !.isActive = FALSE,
                      !.speechStartTime = t]

updateSpeechDuration(v, t) ==
  IF v.speechDetected /\ v.speechStartTime > 0
  THEN [v EXCEPT !.speechDuration = t - v.speechStartTime]
  ELSE v

\* a voiced sample that leaves a running silence timer alone
clearSilenceTimer_keeps(v) == v

\* the head of handleVoiceDetected: if (silenceTimer) { clearTimeout ... }
clearSilenceTimer(v) ==
  IF v.silenceTimer # 0
  THEN [v EXCEPT !.silenceTimer = 0, !.silenceDuration = 0]
  ELSE v

handleVoiceDetected(v, t, options) ==
  LET a == clearSilenceTimer(v) IN
  IF ~a.speechDetected
  THEN IF a.speechTimer = 0
       THEN [a EXCEPT !.speechTimer = t + options.speechTimeout]
       ELSE a
  ELSE updateSpeechDuration(a, t)

\* a silent sample that leaves a running speech timer alone
clearSpeechTimer_keeps(v) == v

\* the head of handleSilenceDetected: if (speechTimer) { clearTimeout ... }
clearSpeechTimer(v) == [v EXCEPT !.speechTimer = 0]

handleSilenceDetected(v, t, options) ==
  LET a == clearSpeechTimer(v) IN
  IF a.speechDetected
  THEN IF a.silenceTimer = 0
       THEN [a EXCEPT !.silenceStartTime = t,
                      !.silenceTimer = t + options.silenceTimeout]
       ELSE [a EXCEPT !.silenceDuration = t - a.silenceStartTime]
  ELSE a

handleAudioLevel(v, level, t, options) ==
  IF ~v.isListening THEN v
  ELSE LET a == [v EXCEPT !.lastAudioLevel = level] IN
       IF voiced(level, options.threshold)
       THEN handleVoiceDetected(a, t, options)
       ELSE handleSilenceDetected(a, t, options)

start(v) ==
  IF v.isListening THEN v
  ELSE [v EXCEPT !.isListening = TRUE, !.isActive = FALSE,
                 !.speechDetected = FALSE, !.silenceDuration = 0,
                 !.speechDuration = 0]

\* a stop that leaves the timeouts running
stop_keepsTimers(v) ==
  IF ~v.isListening THEN v
  ELSE stopRecording([v EXCEPT !.isListening = FALSE, !.isActive = FALSE,
                               !.speechDetected = FALSE])

stop(v) ==
  IF ~v.isListening THEN v
  ELSE stopRecording(clearAllTimers(
         [v EXCEPT !.isListening = FALSE, !.isActive = FALSE,
                   !.speechDetected = FALSE]))

\* the callback of speechTimer
speechTimerCallback(v, t, options, ok) ==
  LET a == IF v.isListening /\ voiced(v.lastAudioLevel, options.threshold)
           THEN startSpeechRecording(v, t, options, ok)
           ELSE v
  IN [a EXCEPT !.speechTimer = 0]

\* the callback of silenceTimer
silenceTimerCallback(v, t, options) ==
  LET a == IF v.isListening /\ v.speechDetected
           THEN endSpeechRecording(v, t, options)
           ELSE v
  IN [a EXCEPT !.silenceTimer = 0]

\* the callback of maxDurationTimer; when endSpeechRecording returns at once
\* the variable keeps the id of the timeout that has fired (-1)
maxDurationTimerCallback(v, t, options) ==
  LET a == endSpeechRecording(Emit(v, "MaxDurationReached"), t, options)
  IN IF a.maxDurationTimer # 0 THEN [a EXCEPT !.maxDurationTimer = -1] ELSE a

\* the level is above the threshold in force
Above(level) == level > defaultOptions.threshold

\* the events since the detector was last armed: a new speech timer or a
\* forceStart() that starts a speech begins a run
RunEvents(v, forced) ==
  IF (forced /\ v.speechDetected /\ ~vad.speechDetected)
     \/ (vad.speechTimer = 0 /\ v.speechTimer # 0)
  THEN v.emitted
  ELSE runEvents \o v.emitted

Cleared == [vad EXCEPT !.emitted = << >>]

Has(events, e) == \E i \in 1..Len(events) : events[i] = e

\* startRecording can only fail when it is called on an idle recorder
MayFail(ok, called) == ~ok => (called /\ ~vad.isRecording)

ApplyVad(v, opname, level, forced) ==
  /\ vad' = v
  /\ vadOp' = [op |-> opname, level |-> level]
  /\ runEvents' = RunEvents(v, forced)
  /\ startedBy' = IF Has(v.emitted, "SpeechStarted") THEN opname ELSE startedBy
  /\ UNCHANGED << defaultOptions, transportVars, playbackVars, ledgerVars >>

\* the caller calls start()
VadStart ==
  /\ ApplyVad(start(Cleared), "start", 0, FALSE)
  /\ UNCHANGED << now, voicedSince, silentSince, voicedSeen >>

\* the caller calls stop()
VadStop ==
  /\ ApplyVad(stop(Cleared), "stop", 0, FALSE)
  /\ UNCHANGED << now, voicedSince, silentSince, voicedSeen >>

\* the recorder pushes a level sample: onAudioLevel(level)
Sample(level) ==
  /\ ApplyVad(handleAudioLevel(Cleared, level, now, defaultOptions),
              "sample", level, FALSE)
  /\ voicedSince' = IF ~vad.isListening THEN voicedSince
                    ELSE IF ~Above(level) THEN 0
                    ELSE IF voicedSince = 0 THEN now ELSE voicedSince
  /\ silentSince' = IF ~vad.isListening THEN silentSince
                    ELSE IF Above(level) THEN 0
                    ELSE IF silentSince = 0 THEN now ELSE silentSince
  /\ voicedSeen' = (voicedSeen \/ (vad.isListening /\ Above(level)))
  /\ UNCHANGED now

\* the caller calls forceStart()
ForceStart(ok) ==
  /\ MayFail(ok, vad.isListening /\ ~vad.speechDetected)
  /\ ApplyVad(IF ~vad.isListening THEN Cleared
              ELSE startSpeechRecording(Cleared, now, defaultOptions, ok),
              "forceStart", 0, TRUE)
  /\ UNCHANGED << now, voicedSince, silentSince, voicedSeen >>

\* the caller calls forceStop()
ForceStop ==
  /\ ApplyVad(IF ~vad.speechDetected THEN Cleared
              ELSE endSpeechRecording(Cleared, now, defaultOptions),
              "forceStop", 0, FALSE)
  /\ UNCHANGED << now, voicedSince, silentSince, voicedSeen >>

\* the caller calls resetState()
ResetState ==
  /\ ApplyVad(resetState(Cleared), "resetState", 0, FALSE)
  /\ UNCHANGED << now, voicedSince, silentSince, voicedSeen >>

\* the speech timeout is due and its callback runs
SpeechTimerFires(ok) ==
  /\ vad.speechTimer > 0 /\ now >= vad.speechTimer
  /\ MayFail(ok, /\ vad.isListening /\ ~vad.speechDetected
                 /\ voiced(vad.lastAudioLevel, defaultOptions.threshold))
  /\ ApplyVad(speechTimerCallback(Cleared, now, defaultOptions, ok),
              "speechTimer", 0, FALSE)
  /\ UNCHANGED << now, voicedSince, silentSince, voicedSeen >>

\* the silence timeout is due and its callback runs
SilenceTimerFires ==
  /\ vad.silenceTimer > 0 /\ now >= vad.silenceTimer
  /\ ApplyVad(silenceTimerCallback(Cleared, now, defaultOptions),
              "silenceTimer", 0, FALSE)
  /\ UNCHANGED << now, voicedSince, silentSince, voicedSeen >>

\* the maximum-duration timeout is due and its callback runs
MaxDurationTimerFires ==
  /\ vad.maxDurationTimer > 0 /\ now >= vad.maxDurationTimer
  /\ ApplyVad(maxDurationTimerCallback(Cleared, now, defaultOptions),
              "maxDurationTimer", 0, FALSE)
  /\ UNCHANGED << now, voicedSince, silentSince, voicedSeen >>

\* time passes; a timeout that is due may still be waiting for its turn
Tick ==
  /\ now < MaxTime
  /\ now' = now + 1
  /\ ApplyVad(Cleared, "tick", 0, FALSE)
  /\ UNCHANGED << voicedSince, silentSince, voicedSeen >>

\* ------------------------------------------------- recorder to voice_input
\* stopRecording() on a recorder that is recording calls mediaRecorder.stop(),
\* which queues a stop event; cause: what stopped the recorder
StopCause ==
  IF vadOp'.op = "stop" THEN "stop"
  ELSE IF Has(vad'.emitted, "SpeechEnded") THEN "SpeechEnded"
  ELSE "discarded"

\* the stop events a step of the detector leaves behind
Capture ==
  LET stops == IF vad.isRecording /\ ~vad'.isRecording
               THEN Append(capture.stopEvents, StopCause)
               ELSE capture.stopEvents
  IN /\ Len(stops) <= MaxStopEvents
     /\ capture' = [stopEvents |-> stops, voiceInput |-> "none"]
     /\ UNCHANGED wav

NoCapture == UNCHANGED captureVars

\* processRecording(): recorded: chunks were collected and the conversion to
\* WAV succeeds
processRecording(recorded) ==
  IF recorded THEN "onRecordingComplete" ELSE "onError"

\* onRecordingComplete -> onVoiceMessage -> agentium.sendVoice(): accepted:
\* the transport is connected, voice is enabled and sendVoiceMessage returns
\* true
sendVoice(accepted) == IF accepted THEN "voice_input" ELSE "throws"

\* mediaRecorder.onstop for the oldest stop event
RecorderOnStop(recorded, accepted) ==
  /\ capture.stopEvents # << >>
  /\ capture' =
       [stopEvents |-> Tail(capture.stopEvents),
        voiceInput |->
          IF /\ processRecording(recorded) = "onRecordingComplete"
             /\ sendVoice(accepted) = "voice_input"
          THEN Head(capture.stopEvents)
          ELSE "none"]
  /\ UNCHANGED wav
  /\ ApplyVad(Cleared, "onstop", 0, FALSE)
  /\ UNCHANGED << now, voicedSince, silentSince, voicedSeen >>

\* The detector in VAD mode (startListening, stopListening, samples and
\* timeouts) with the recorder's stop events and what they send.
NextCapture ==
  \/ VadStart /\ Capture
  \/ VadStop /\ Capture
  \/ \E level \in Levels : Sample(level) /\ Capture
  \/ \E ok \in BOOLEAN : SpeechTimerFires(ok) /\ Capture
  \/ SilenceTimerFires /\ Capture
  \/ MaxDurationTimerFires /\ Capture
  \/ Tick /\ Capture
  \/ \E recorded, accepted \in BOOLEAN : RecorderOnStop(recorded, accepted)

SpecCapture == InitVad /\ [][NextCapture]_vars

\* The detector with its recorder, driven by samples, timeouts and the
\* caller, for each of the configurations.
NextVad ==
  \/ VadStart /\ NoCapture
  \/ VadStop /\ NoCapture
  \/ \E level \in Levels : Sample(level) /\ NoCapture
  \/ \E ok \in BOOLEAN : ForceStart(ok) /\ NoCapture
  \/ ForceStop /\ NoCapture
  \/ ResetState /\ NoCapture
  \/ \E ok \in BOOLEAN : SpeechTimerFires(ok) /\ NoCapture
  \/ SilenceTimerFires /\ NoCapture
  \/ MaxDurationTimerFires /\ NoCapture
  \/ Tick /\ NoCapture

SpecVad == InitVad /\ [][NextVad]_vars

\* ------------------------------------------------- the detector's defaults
\* The detector with the options of defaultOptions (threshold 0.1,
\* speechTimeout 500, silenceTimeout 2000, minSpeechDuration 300,
\* maxSpeechDuration 30000) on a recorder that starts when asked.  Here a unit
\* of time is 25 ms, a level is counted in hundredths, and the recorder pushes
\* one sample per unit: 10 samples of 0.05, 600 ms of 0.3, 2000 ms of 0.02.
DefaultsIn25ms ==
  [threshold |-> 10, silenceTimeout |-> 80, speechTimeout |-> 20,
   minSpeechDuration |-> 12, maxSpeechDuration |-> 1200]

FeedLevels ==
  [i \in 1..10 |-> 5] \o [i \in 1..24 |-> 30] \o [i \in 1..80 |-> 2]

InitFeed ==
  /\ TransportInit /\ sessionId = DefaultSession /\ VadInit(DefaultsIn25ms)
  /\ PlaybackInit /\ LedgerInit /\ wav = NoWav

Due(timer) == timer > 0 /\ timer <= now

\* a timeout runs at the time it is due, before the next sample is taken
NoTimerDue ==
  ~Due(vad.speechTimer) /\ ~Due(vad.silenceTimer) /\ ~Due(vad.maxDurationTimer)

\* a unit of time passes and the recorder pushes the next sample of the feed
Feed ==
  /\ vad.isListening
  /\ now <= Len(FeedLevels)
  /\ NoTimerDue
  /\ now' = now + 1
  /\ LET level == FeedLevels[now] IN
       /\ ApplyVad(handleAudioLevel(Cleared, level, now + 1, defaultOptions),
                   "sample", level, FALSE)
       /\ voicedSince' = IF ~Above(level) THEN 0
                         ELSE IF voicedSince = 0 THEN now + 1 ELSE voicedSince
       /\ silentSince' = IF Above(level) THEN 0
                         ELSE IF silentSince = 0 THEN now + 1 ELSE silentSince
       /\ voicedSeen' = (voicedSeen \/ Above(level))

\* the feed is over; time passes while a timeout is still pending
Quiet ==
  /\ now > Len(FeedLevels)
  /\ NoTimerDue
  /\ vad.speechTimer > 0 \/ vad.silenceTimer > 0 \/ vad.maxDurationTimer > 0
  /\ now' = now + 1
  /\ ApplyVad(Cleared, "tick", 0, FALSE)
  /\ UNCHANGED << voicedSince, silentSince, voicedSeen >>

NextFeed ==
  \/ VadStart /\ NoCapture
  \/ Feed /\ NoCapture
  \/ Quiet /\ NoCapture
  \/ SpeechTimerFires(TRUE) /\ NoCapture
  \/ SilenceTimerFires /\ NoCapture

SpecFeed == InitFeed /\ [][NextFeed]_vars

\* a timeout is pending only in the phase that started it
VadTimersOK ==
  /\ vad.maxDurationTimer # 0 => vad.speechDetected
  /\ vad.silenceTimer # 0 => vad.speechDetected
  /\ vad.speechTimer # 0 => vad.isListening
  /\ vad.maxDurationTimer >= 0

\* ------------------------------------------------------------ audio playback
\* Browser semantics used below: play() on a paused element clears paused and
\* queues a play event, pause() on a playing element sets paused and queues
\* a pause event; the events of one element are delivered in order, those
\* of different elements in any order; a play() the browser refuses rejects
\* its promise and queues nothing; an element that reaches its end gets
\* pause and ended in one task.  autoPlay is true, as in the defaults.

\* the state a handler works on, and the callbacks it has invoked
Work == [pb |-> playback, au |-> audios, order |-> playOrder, cb |-> << >>]

Call(P, callback) == [P EXCEPT !.cb = Append(@, callback)]

\* audio.pause()
pause(P, e) ==
  IF P.au[e].paused THEN P
  ELSE [P EXCEPT !.au[e].paused = TRUE, !.au[e].events = Append(@, "pause")]

\* audio.play() that the browser accepts
play(P, e) ==
  IF ~P.au[e].paused THEN P
  ELSE [P EXCEPT !.au[e].paused = FALSE, !.au[e].events = Append(@, "play")]

RECURSIVE playAudio(_, _, _, _)
RECURSIVE processQueue(_, _)

\* playAudio(base64Audio): via tells which caller's catch is attached to the
\* promise; rejected: the items whose play() the browser refuses
playAudio(P, item, via, rejected) ==
  LET a == [P EXCEPT !.pb.error = FALSE] IN
  IF item \in rejected
  THEN LET b == [a EXCEPT !.au[item] =
                   [NoItem EXCEPT !.st = "rejected", !.via = via,
                                  !.volume = a.pb.volume]]
       IN IF via = "queue" THEN processQueue(b, rejected) ELSE b
  ELSE [a EXCEPT !.au[item] =
                   [st |-> "live", paused |-> FALSE, events |-> << "play" >>,
                    volume |-> a.pb.volume, via |-> via],
                 !.order = Append(@, item)]

processQueue(P, rejected) ==
  IF P.pb.queue = << >> THEN P
  ELSE playAudio([P EXCEPT !.pb.queue = Tail(@)], Head(P.pb.queue), "queue",
                 rejected)

queueAudio(P, item, rejected) ==
  IF P.pb.isPlaying
  THEN [P EXCEPT !.pb.queue = Append(@, item), !.au[item].st = "queued"]
  ELSE playAudio(P, item, "direct", rejected)

\* audio.onplay
onplay(P, e) ==
  Call([P EXCEPT !.pb.isPlaying = TRUE, !.pb.currentAudio = e],
       "onPlaybackStart")

\* audio.onpause
onpause(P, e) == [P EXCEPT !.pb.isPlaying = FALSE]

\* audio.onended
onended(P, e, rejected) ==
  processQueue(
    Call([P EXCEPT !.pb.isPlaying = FALSE, !.pb.currentAudio = Null,
                   !.au[e].st = "ended", !.au[e].paused = TRUE],
         "onPlaybackEnd"),
    rejected)

\* audio.onerror: reject() reaches the catch of the caller of playAudio, and
\* only processQueue's catch goes on with the queue
onerror(P, e, rejected) ==
  LET a == Call([P EXCEPT !.pb.error = TRUE, !.pb.isPlaying = FALSE,
                          !.pb.currentAudio = Null, !.au[e].st = "error"],
                "onPlaybackError")
  IN IF P.au[e].via = "queue" THEN processQueue(a, rejected) ELSE a

stopPlayback(P) ==
  LET a == IF P.pb.currentAudio # Null
           THEN [pause(P, P.pb.currentAudio) EXCEPT !.pb.currentAudio = Null]
           ELSE P
  IN [a EXCEPT !.pb.isPlaying = FALSE]

pausePlayback(P) ==
  IF P.pb.currentAudio # Null /\ P.pb.isPlaying
  THEN pause(P, P.pb.currentAudio)
  ELSE P

\* accepted: the browser accepts the play() of the resume
resumePlayback(P, accepted) ==
  IF P.pb.currentAudio # Null /\ ~P.pb.isPlaying
  THEN IF accepted \/ ~P.au[P.pb.currentAudio].paused
       THEN play(P, P.pb.currentAudio)
       ELSE Call([P EXCEPT !.pb.error = TRUE], "onPlaybackError")
  ELSE P

\* Math.max(0, Math.min(1, volume)), in tenths
clamp(volume) ==
  LET low == IF volume < FullVolume THEN volume ELSE FullVolume
  IN IF low > 0 THEN low ELSE 0

setVolume(P, volume) ==
  LET a == [P EXCEPT !.pb.volume = clamp(volume)] IN
  IF P.pb.currentAudio # Null
  THEN [a EXCEPT !.au[P.pb.currentAudio].volume = clamp(volume)]
  ELSE a

\* state.queue = []: the items that were waiting are dropped
clearQueue(P) ==
  [P EXCEPT !.pb.queue = << >>,
            !.au = [i \in Items |->
                      IF \E k \in 1..Len(P.pb.queue) : P.pb.queue[k] = i
                      THEN [P.au[i] EXCEPT !.st = "cleared"]
                      ELSE P.au[i]]]

skipCurrent(P, rejected) ==
  IF P.pb.isPlaying THEN processQueue(stopPlayback(P), rejected) ELSE P

ApplyPlayback(P, opname, item) ==
  /\ \A i \in Items : Len(P.au[i].events) <= MaxEvents
  /\ playback' = P.pb
  /\ audios' = P.au
  /\ playOrder' = P.order
  /\ playOp' = [op |-> opname, item |-> item, cb |-> P.cb]
  /\ UNCHANGED << transportVars, vadVars, captureVars, ledgerVars >>

\* the caller calls queueAudio with the next item
QueueAudio(rejected) ==
  \E item \in Items :
    /\ audios[item].st = "none"
    /\ \A i \in Items : i < item => audios[i].st # "none"
    /\ ApplyPlayback(queueAudio(Work, item, rejected), "queueAudio", item)

StopPlayback ==
  ApplyPlayback(stopPlayback(Work), "stopPlayback", playback.currentAudio)

PausePlayback ==
  ApplyPlayback(pausePlayback(Work), "pausePlayback", playback.currentAudio)

ResumePlayback(accepted) ==
  ApplyPlayback(resumePlayback(Work, accepted), "resumePlayback",
                playback.currentAudio)

SkipCurrent(rejected) ==
  ApplyPlayback(skipCurrent(Work, rejected), "skipCurrent",
                playback.currentAudio)

ClearQueue == ApplyPlayback(clearQueue(Work), "clearQueue", Null)

SetVolume(volume) ==
  ApplyPlayback(setVolume(Work, volume), "setVolume", playback.currentAudio)

\* the browser delivers the oldest play or pause event of an element
AudioEvent(e) ==
  /\ audios[e].events # << >>
  /\ LET P == [Work EXCEPT !.au[e].events = Tail(@)] IN
       IF Head(audios[e].events) = "play"
       THEN ApplyPlayback(onplay(P, e), "onplay", e)
       ELSE ApplyPlayback(onpause(P, e), "onpause", e)

\* an element that is playing
Playing(au, e) == au[e].st = "live" /\ ~au[e].paused

\* a playing element reaches its end
AudioEnded(e, rejected) ==
  /\ Playing(audios, e) /\ audios[e].events = << >>
  /\ ApplyPlayback(onended(onpause(Work, e), e, rejected), "onended", e)

\* a playing element fails to decode or to play
AudioError(e, rejected) ==
  /\ Playing(audios, e) /\ audios[e].events = << >>
  /\ ApplyPlayback(onerror(Work, e, rejected), "onerror", e)

\* Playback at the default volume: the caller's operations and the events of
\* the elements.
NextPlayback ==
  \/ \E rejected \in SUBSET Items : QueueAudio(rejected)
  \/ StopPlayback
  \/ PausePlayback
  \/ \E accepted \in BOOLEAN : ResumePlayback(accepted)
  \/ \E rejected \in SUBSET Items : SkipCurrent(rejected)
  \/ ClearQueue
  \/ \E e \in Items : AudioEvent(e)
  \/ \E e \in Items, rejected \in SUBSET Items : AudioEnded(e, rejected)
  \/ \E e \in Items, rejected \in SUBSET Items : AudioError(e, rejected)

SpecPlayback == Init /\ [][NextPlayback]_vars

\* arguments of setVolume in tenths: below 0, inside [0,1], above 1
Volumes == {-5, 0, 5, 15}

\* Playback with setVolume: items are enqueued, played to their end and
\* paused while the volume is changed.
NextVolume ==
  \/ QueueAudio({})
  \/ \E volume \in Volumes : SetVolume(volume)
  \/ PausePlayback
  \/ ResumePlayback(TRUE)
  \/ \E e \in Items : AudioEvent(e)
  \/ \E e \in Items : AudioEnded(e, {})

SpecVolume == Init /\ [][NextVolume]_vars

\* ------------------------------------------------------------- cost ledger
\* A value of a message field: a number, a string holding the decimal n, a
\* string that is not a number, or a field that is missing.
Num(n) == [t |-> "number", n |-> n]
Str(n) == [t |-> "string", n |-> n]
Text == [t |-> "text", n |-> 0]
Undefined == [t |-> "undefined", n |-> 0]

\* data.field
Get(data, field) == IF field \in DOMAIN data THEN data[field] ELSE Undefined

\* parseCost(value): a number as it is, a string through parseFloat with NaN
\* turned into 0, anything else 0
parseCost(value) ==
  IF value.t \in {"number", "string"} THEN value.n ELSE 0

\* typeof x === 'string' ? parseFloat(x) : x. The NaN of a string that is not
\* a number is written as the number 0: it fails cost > 0 as 0 does.
normalize(value) ==
  IF value.t \in {"string", "text"} THEN [value EXCEPT !.t = "number"]
  ELSE value

\* handleMessage, case AGENT_RESPONSE: the data handed to onAgentResponse
normalizedAgentData(agentData) ==
  [agentData EXCEPT !.cost = normalize(agentData.cost)]

\* handleMessage, case COST_UPDATE: the data handed to onCostUpdate
normalizedCostData(costData) ==
  [sessionCost |-> normalize(Get(costData, "session_cost")),
   budgetRemaining |-> normalize(Get(costData, "budget_remaining")),
   budgetLimit |-> normalize(Get(costData, "budget_limit"))]

\* store.updateCostSummary(newCost)
updateCostSummary(summary, newCost) ==
  [f \in DOMAIN summary |-> IF f \in DOMAIN newCost THEN newCost[f]
                                                     ELSE summary[f]]

\* callbacks.onAgentResponse(data), the cost part
onAgentResponse(summary, data) ==
  LET cost == parseCost(Get(data, "cost")) IN
  IF cost > 0
  THEN LET currentCost == summary.sessionCost + cost IN
       updateCostSummary(summary,
         [sessionCost |-> currentCost,
          budgetRemaining |-> summary.budgetLimit - currentCost])
  ELSE summary

\* callbacks.onCostUpdate(data)
onCostUpdate(summary, data) ==
  LET limit == parseCost(Get(data, "budget_limit")) IN
  updateCostSummary(summary,
    [sessionCost |-> parseCost(Get(data, "session_cost")),
     budgetRemaining |-> parseCost(Get(data, "budget_remaining")),
     budgetLimit |-> IF limit # 0 THEN limit ELSE summary.budgetLimit])

\* budgetPercentage.value > percent, where budgetPercentage is
\* (sessionCost / budgetLimit) * 100: the division is multiplied out (for
\* whole costs and limits the floating-point result compares the same way);
\* a limit of 0 gives Infinity, or NaN for 0 / 0
budgetPercentageOver(summary, percent) ==
  IF summary.budgetLimit > 0
  THEN summary.sessionCost * 100 > percent * summary.budgetLimit
  ELSE IF summary.budgetLimit = 0
  THEN summary.sessionCost > 0
  ELSE summary.sessionCost * 100 < percent * summary.budgetLimit

\* budgetStatus
budgetStatus(summary) ==
  IF budgetPercentageOver(summary, 90) THEN "critical"
  ELSE IF budgetPercentageOver(summary, 75) THEN "warning"
  ELSE "safe"

\* what the server sends as the cost of a response
Costs == {Num(0), Num(5), Str(45), Num(-5), Text, Undefined}

\* cost_update messages of the server: each states a remaining budget that
\* is its limit minus its session cost
Snapshots ==
  { [session_cost |-> Num(50), budget_remaining |-> Num(50),
     budget_limit |-> Num(100)],
    [session_cost |-> Str(95), budget_remaining |-> Str(5),
     budget_limit |-> Str(100)],
    [session_cost |-> Num(50), budget_remaining |-> Num(150),
     budget_limit |-> Num(200)],
    [session_cost |-> Num(0), budget_remaining |-> Num(100),
     budget_limit |-> Num(100)] }

ApplyLedger(summary, opname, data) ==
  /\ summary.sessionCost <= MaxSessionCost
  /\ costSummary' = summary
  /\ store' = IF opname = "agent_response"
              THEN [store EXCEPT !.isTyping = FALSE] ELSE store
  /\ ledgerOp' = [op |-> opname, data |-> data]
  /\ UNCHANGED << transportVars, awaiting, vadVars, captureVars, playbackVars >>

\* an agent_response arrives
AgentResponse(cost) ==
  LET agentData == [cost |-> cost] IN
  ApplyLedger(onAgentResponse(costSummary, normalizedAgentData(agentData)),
              "agent_response", agentData)

\* a cost_update arrives
CostUpdate(costData) ==
  ApplyLedger(onCostUpdate(costSummary, normalizedCostData(costData)),
              "cost_update", costData)

NextLedger ==
  \/ \E cost \in Costs : AgentResponse(cost)
  \/ \E costData \in Snapshots : CostUpdate(costData)

SpecLedger == Init /\ [][NextLedger]_vars

\* ------------------------------------------------------------ useAgentium
\* canSendMessage
canSendMessage(st) == st.connected /\ ~st.isTyping

\* The callbacks useAgentium registers with the transport, run for the
\* callbacks of the transport step that is taken with it: onConnectionChange
\* copies the flag, onError and onAgentResponse clear isTyping,
\* onAgentResponse and onCostUpdate write the ledger.
AgentCallbacks(cost, costData) ==
  LET cb == lastOp'.cb
      summary == IF "onAgentResponse" \in cb
                 THEN onAgentResponse(costSummary,
                                      normalizedAgentData([cost |-> cost]))
                 ELSE IF "onCostUpdate" \in cb
                 THEN onCostUpdate(costSummary, normalizedCostData(costData))
                 ELSE costSummary
  IN /\ summary.sessionCost <= MaxSessionCost
     /\ costSummary' = summary
     /\ store' = [store EXCEPT
                    !.connected = IF "onConnectionChange" \in cb
                                  THEN connected' ELSE @,
                    !.isTyping = IF cb \cap {"onError", "onAgentResponse"} # {}
                                 THEN FALSE ELSE @]
     /\ awaiting' = IF awaiting = Null THEN Null
                    ELSE IF cb \cap {"onError", "onAgentResponse"} # {} THEN Null
                    ELSE IF socks'[awaiting].rs \in {"OPEN", "CLOSING"}
                    THEN awaiting ELSE Null
     /\ ledgerOp' = [op |-> "transport", data |-> cb]
     /\ UNCHANGED << vadVars, captureVars, playbackVars >>

\* a call of useAgentium that hands a message to the transport, or throws
\* before it does; typing: the call sets isTyping while it waits
AgentSend(opname, type, throws, refused, typing) ==
  IF refused # "none"
  THEN /\ ~throws
       /\ ledgerOp' = [op |-> opname, data |-> refused]
       /\ UNCHANGED << transportVars, costSummary, store, awaiting, vadVars,
                       captureVars, playbackVars >>
  ELSE /\ Send(type, throws) /\ NoHistory
       /\ store' = [store EXCEPT !.isTyping =
                      IF typing THEN lastOp'.ret = "true" ELSE @]
       /\ awaiting' = IF typing /\ lastOp'.ret = "true" THEN ws ELSE awaiting
       /\ ledgerOp' = [op |-> opname,
                       data |-> IF lastOp'.ret = "true" THEN "sent"
                                ELSE "Failed to send"]
       /\ UNCHANGED << costSummary, vadVars, captureVars, playbackVars >>

\* sendMessage(text) of useAgentium
AgentSendMessage(throws) ==
  AgentSend("sendMessage", TEXT_INPUT, throws,
            IF ~connected THEN "Not connected to server" ELSE "none", TRUE)

\* sendVoice(audioData) of useAgentium
AgentSendVoice(throws) ==
  AgentSend("sendVoice", VOICE_INPUT, throws,
            IF ~connected THEN "Not connected to server"
            ELSE IF ~store.voiceEnabled THEN "Voice is disabled" ELSE "none",
            FALSE)

\* clearConversation() of useAgentium: sendSystemCommand('reset')
ClearConversation(throws) ==
  AgentSend("clearConversation", SYSTEM_COMMAND, throws, "none", FALSE)

\* the responses of the server that carry a cost
ResponseCosts == {Num(5), Num(45)}

\* A session in which the server's responses use up the budget while the
\* caller sends text, voice and control messages.
NextBudget ==
  \/ /\ Connect(FALSE) /\ NoHistory
     /\ AgentCallbacks(Undefined, CHOOSE d \in Snapshots : TRUE)
  \/ /\ \E s \in Sockets : SockOpen(s, 0) /\ NoHistory
     /\ AgentCallbacks(Undefined, CHOOSE d \in Snapshots : TRUE)
  \/ /\ \E s \in Sockets : SockClose(s, TRUE, FALSE) /\ NoHistory
     /\ AgentCallbacks(Undefined, CHOOSE d \in Snapshots : TRUE)
  \/ \E s \in Sockets, cost \in ResponseCosts :
        /\ SockMessage(s, AGENT_RESPONSE, "none") /\ NoHistory
        /\ AgentCallbacks(cost, CHOOSE d \in Snapshots : TRUE)
  \/ \E s \in Sockets, costData \in Snapshots :
        /\ SockMessage(s, COST_UPDATE, "none") /\ NoHistory
        /\ AgentCallbacks(Undefined, costData)
  \/ \E s \in Sockets :
        /\ SockMessage(s, SYSTEM_STATUS, "none") /\ NoHistory
        /\ AgentCallbacks(Undefined, CHOOSE d \in Snapshots : TRUE)
  \/ \E throws \in BOOLEAN : AgentSendMessage(throws)
  \/ \E throws \in BOOLEAN : AgentSendVoice(throws)
  \/ \E throws \in BOOLEAN : ClearConversation(throws)

SpecBudget == Init /\ [][NextBudget]_vars

\* The caller keeps the session connected and sends text; the server
\* answers a text message with an agent_response or an error, over the
\* connection that carried it.
Reconnects ==
  \/ Connect(FALSE)
  \/ \E s \in Sockets : SockOpen(s, 0)
  \/ \E tracked \in BOOLEAN : ReconnectTimerFires(tracked, FALSE)

Closes ==
  \E s \in Sockets, wasClean \in BOOLEAN, withError \in BOOLEAN :
     SockClose(s, wasClean, withError)

Answers ==
  /\ awaiting # Null
  /\ \/ SockMessage(awaiting, AGENT_RESPONSE, "none")
     \/ \E errField \in ErrFields : SockMessage(awaiting, ERROR, errField)

Transport(A) ==
  A /\ NoHistory /\ AgentCallbacks(Undefined, CHOOSE d \in Snapshots : TRUE)

NextTyping ==
  \/ Transport(Reconnects)
  \/ Transport(Closes)
  \/ Transport(Answers)
  \/ \E throws \in BOOLEAN : AgentSendMessage(throws)

\* The browser delivers open events and fires the reconnect timers, the
\* caller connects again, and the server answers over a connection that
\* stays open.
SpecTyping ==
  /\ Init /\ [][NextTyping]_vars
  /\ WF_vars(Transport(Reconnects))
  /\ WF_vars(Transport(Answers))

\* ------------------------------------------------------- audioBufferToWav
\* A sample is counted in halves (2 is 1.0, -3 is -1.5), the mix of two
\* channels in quarters; bytes are numbers in 0..255.

\* view.setUint16(offset, n, true) and view.setUint32(offset, n, true): the
\* bytes written, low byte first
setUint16(n) == << n % 256, (n \div 256) % 256 >>

setUint32(n) ==
  << n % 256, (n \div 256) % 256, (n \div 65536) % 256, (n \div 16777216) % 256 >>

\* view.setInt16(offset, num / den, true): the fraction is cut off towards
\* zero and the result taken modulo 2^16
setInt16(num, den) ==
  setUint16((IF num >= 0 THEN num \div den ELSE -((-num) \div den)) % 65536)

\* writeString(offset, string): the character codes
writeString(string) ==
  CASE string = "RIFF" -> << 82, 73, 70, 70 >>
    [] string = "WAVE" -> << 87, 65, 86, 69 >>
    [] string = "fmt " -> << 102, 109, 116, 32 >>
    [] string = "data" -> << 100, 97, 116, 97 >>

\* audioBufferToWav(audioBuffer): the bytes of the ArrayBuffer returned
audioBufferToWav(audioBuffer) ==
  LET length == Len(audioBuffer.channels[1])
      sampleRate == audioBuffer.sampleRate
      numberOfChannels == 1
      channelData(i) ==
        IF Len(audioBuffer.channels) = 1
        THEN 2 * audioBuffer.channels[1][i]
        ELSE audioBuffer.channels[1][i] + audioBuffer.channels[2][i]
      sample(i) ==
        IF channelData(i) < -4 THEN -4
        ELSE IF channelData(i) > 4 THEN 4 ELSE channelData(i)
  IN writeString("RIFF") \o setUint32(36 + length * 2)
     \o writeString("WAVE") \o writeString("fmt ")
     \o setUint32(16) \o setUint16(1) \o setUint16(numberOfChannels)
     \o setUint32(sampleRate) \o setUint32(sampleRate * numberOfChannels * 2)
     \o setUint16(numberOfChannels * 2) \o setUint16(16)
     \o writeString("data") \o setUint32(length * 2)
     \o [k \in 1..(2 * length) |->
           setInt16(sample((k + 1) \div 2) * 32767, 4)[2 - (k % 2)]]

\* the AudioBuffers decodeAudioData may return: a sample rate, one to
\* MaxChannels channels, up to MaxSamples samples in each
Frames ==
  UNION { UNION { [sampleRate : {16000, 48000},
                   channels : [1..c -> [1..n -> {-3, -1, 2, 3}]]]
                  : n \in 0..MaxSamples }
          : c \in 1..MaxChannels }

InitWav ==
  /\ TransportInit /\ sessionId = DefaultSession /\ VadInit(DefaultOptions)
  /\ PlaybackInit /\ LedgerInit
  /\ \E frame \in Frames : wav = [frame |-> frame, bytes |-> << >>]

\* convertToWav: the decoded buffer is encoded
ConvertToWav ==
  /\ wav.bytes = << >>
  /\ wav' = [wav EXCEPT !.bytes = audioBufferToWav(wav.frame)]
  /\ UNCHANGED << transportVars, vadVars, capture, playbackVars, ledgerVars >>

SpecWav == InitWav /\ [][ConvertToWav]_vars

TypeOK ==
  /\ connected \in BOOLEAN /\ connecting \in BOOLEAN
  /\ reconnectAttempts \in 0..maxReconnectAttempts
  /\ ws \in {Null} \cup Sockets
  /\ reconnectTimer \in {"none", "pending", "fired"}
  /\ orphanTimers \in 0..MaxOrphanTimers
  /\ leakedHeartbeats \in 0..MaxLeakedHeartbeats
  /\ nextSeq \in 1..(MaxSends + 1)

\* ----------------------------------------------------------------- claims
Count(m, q) == Cardinality({ i \in 1..Len(q) : q[i] = m })

Last(q) == q[Len(q)]

\* C1: a message that send() put in the queue is never lost or duplicated:
\* at every step each queued message either stays in the queue or is
\* written to the socket, and it is in exactly one of the two.
C1_QueuedDeliveredOnce ==
  [][\A i \in 1..Len(messageQueue) :
        Count(messageQueue[i], messageQueue') + Count(messageQueue[i], wire') = 1]_vars

\* C2: messages are written to the socket in the order in which send() was
\* called: the call numbers on the wire increase.
C2_WireInSendOrder ==
  \A i, j \in 1..Len(wire) : i < j => wire[i].seq < wire[j].seq

\* C3: while disconnect() is the caller's last connect()/disconnect() call,
\* no reconnect timeout is pending, reconnectAttempts is 0 and no timeout
\* has run connect().
C3_NoReconnectAfterDisconnect ==
  userDisconnected =>
    /\ reconnectTimer # "pending"
    /\ orphanTimers = 0
    /\ reconnectAttempts = 0
    /\ lastOp.op # "timer"

BackoffDelays == << 1000, 2000, 4000, 8000, 16000 >>

\* C4 as stated: the k-th reconnect scheduled since the last open has delay
\* baseDelay * 2^(k-1), and no more than maxAttempts are scheduled.  It is
\* stated for the closes of a connection the caller asked for, leaving aside
\* the close events that arrive after disconnect() (C3).
C4_BackoffSinceOpen ==
  ~userDisconnected =>
    /\ schedSinceOpen <= maxReconnectAttempts
    /\ Scheduled(lastOp) =>
         /\ schedSinceOpen \in 1..Len(BackoffDelays)
         /\ lastOp.delay = BackoffDelays[schedSinceOpen]

\* C4 as amended: the k-th reconnect scheduled since the last open or
\* disconnect() has delay baseDelay * 2^(k-1) (1000, 2000, 4000, 8000,
\* 16000 ms), and no more than maxAttempts (5) are scheduled in such a run.
C4_BackoffSinceReset ==
  /\ schedSinceReset <= maxReconnectAttempts
  /\ Scheduled(lastOp) =>
       /\ schedSinceReset \in 1..Len(BackoffDelays)
       /\ lastOp.delay = BackoffDelays[schedSinceReset]

\* the fifth reconnect of a run has been scheduled, 16 s ahead
C4_Witness ==
  /\ Scheduled(lastOp)
  /\ schedSinceReset = maxReconnectAttempts
  /\ lastOp.delay = 16000

\* C5: a close that schedules no reconnect (a clean close, or an unclean one
\* with the attempts used up) leaves the transport disconnected with no
\* reconnect pending and lastError saying that the attempts are exhausted.
C5_TerminalErrorSurfaced ==
  (lastOp.op = "close" /\ lastOp.ret = "false") =>
    /\ ~connected /\ ~connecting
    /\ reconnectTimer # "pending"
    /\ lastError = ErrMaxAttempts

\* C6: connect() called (by the caller or by the reconnect timeout) while
\* connected or connecting creates no socket and changes none of connected,
\* connecting, reconnectAttempts, lastError and the queue; it returns
\* state.connected.
C6_ConnectIdempotent ==
  [][(lastOp'.op \in {"connect", "timer"} /\ (connected \/ connecting)) =>
        /\ UNCHANGED << connected, connecting, reconnectAttempts, lastError,
                        messageQueue, ws, socks, wire >>
        /\ lastOp'.ret = Bool(connected)]_vars

\* connect() has returned early on a connected transport with a message
\* waiting in the queue
C6_Witness ==
  /\ lastOp.op = "connect" /\ lastOp.arg = "early"
  /\ connected
  /\ Len(messageQueue) > 0

\* C7: every open event sets connected, clears connecting, zeroes
\* reconnectAttempts, starts the heartbeat and flushes the queue in FIFO
\* order: what it writes is a prefix of the queue and the rest stays queued.
C7_OpenResetsAndFlushes ==
  [][lastOp'.op = "open" =>
        /\ connected' /\ ~connecting'
        /\ reconnectAttempts' = 0
        /\ heartbeatTimer'
        /\ \E k \in 0..Len(messageQueue) :
              /\ wire' = wire \o SubSeq(messageQueue, 1, k)
              /\ messageQueue' = SubSeq(messageQueue, k + 1, Len(messageQueue))]_vars

\* C8: when send() returns, its message is the last one written to the
\* socket and send returned true, or it is the tail of the queue and send
\* returned false.
C8_SendAcceptedOrQueued ==
  lastOp.op = "send" =>
    \/ /\ lastOp.ret = "true"
       /\ Len(wire) > 0 /\ Last(wire).seq = nextSeq - 1
    \/ /\ lastOp.ret = "false"
       /\ Len(messageQueue) > 0 /\ Last(messageQueue).seq = nextSeq - 1

\* C9: a send on a connected transport with an open socket that writes
\* nothing (the write threw) returns false, sets lastError, and changes none
\* of connected, connecting, reconnectAttempts and the reconnect timer.
C9_FailedSendNoReconnect ==
  [][(/\ lastOp'.op \in {"send", "heartbeat"}
      /\ nextSeq' = nextSeq + 1
      /\ connected /\ wsIsOpen(ws, socks)
      /\ wire' = wire) =>
        /\ lastOp'.ret = "false"
        /\ lastError' = "Failed to send message"
        /\ UNCHANGED << connected, connecting, reconnectAttempts,
                        reconnectTimer, orphanTimers, ws, socks >>]_vars

\* a send has failed on a connected transport while a reconnect timeout of
\* an earlier close is still pending
C9_Witness ==
  /\ lastOp.op = "send" /\ lastOp.arg = "failed"
  /\ connected
  /\ reconnectTimer = "pending"

ClaimedCategories ==
  { "agent_response", "cost_update", "system_status", "tool_execution",
    "error", "heartbeat", "connection_status" }

\* C10: a decoded inbound message whose type is one of the seven categories
\* enters exactly that case of the dispatch; a message of any other type
\* enters none and leaves connected, connecting, reconnectAttempts and
\* lastError unchanged.
C10_RoutedToOneCategory ==
  [][(lastOp'.op = "message" /\ lastOp'.arg # "malformed") =>
        IF lastOp'.arg \in ClaimedCategories
        THEN lastOp'.routed = { lastOp'.arg }
        ELSE /\ lastOp'.routed = {}
             /\ UNCHANGED << connected, connecting, reconnectAttempts, lastError >>]_vars

\* an agent_response_stream message has arrived on a connected transport
\* whose lastError holds an earlier server error, and was dropped
C10_Witness ==
  /\ lastOp.op = "message" /\ lastOp.arg = "agent_response_stream"
  /\ lastOp.routed = {}
  /\ connected
  /\ lastError = "server: message"

NoTimers(v) == v.silenceTimer = 0 /\ v.speechTimer = 0 /\ v.maxDurationTimer = 0

Idle(v) == ~v.speechDetected /\ ~v.isActive

\* C11: a payload that fails to parse is reported like an inbound error
\* message (callbacks.onError is invoked and lastError is set) and leaves
\* the connection alone: connected, connecting, the sockets, reconnectAttempts
\* and the reconnect timers do not change.
C11_MalformedReportedAsError ==
  [][(lastOp'.op = "message" /\ lastOp'.arg = "malformed") =>
        /\ "onError" \in lastOp'.cb
        /\ lastError' # ErrNone
        /\ UNCHANGED << connected, connecting, reconnectAttempts, ws, socks,
                        reconnectTimer, orphanTimers >>]_vars

C13_HeartbeatOnlyWhileConnected ==
  [][/\ (lastOp'.op = "heartbeat" /\ ~connected) =>
           UNCHANGED << wire, messageQueue >>
     /\ lastOp'.op \in {"close", "disconnect"} =>
           (~heartbeatTimer' /\ leakedHeartbeats' = 0)]_vars

C15_NoSpeechStartBelowThreshold ==
  [][(Has(vad'.emitted, "SpeechStarted") /\ vadOp'.op # "forceStart")
        => voicedSeen]_vars

\* a listening detector that has only seen samples at or below the
\* threshold, the last one at the threshold, is idle with no timer after the
\* speech timeout has long passed
C15_Witness ==
  /\ ~voicedSeen /\ vad.isListening
  /\ vadOp.op = "sample" /\ vadOp.level = defaultOptions.threshold
  /\ now > 1 + defaultOptions.speechTimeout
  /\ Idle(vad) /\ NoTimers(vad) /\ runEvents = << >>

\* C16: in Idle a sample that is not voiced cancels the speech timer, emits
\* nothing and leaves the detector Idle; a voiced sample with no timer
\* running starts one for the full speechTimeout; and the speech timer
\* emits SpeechStarted only when the samples have been voiced without a
\* break for speechTimeout.
C16_SpeechArmDebounce ==
  [][/\ (/\ vadOp'.op = "sample" /\ ~Above(vadOp'.level)
         /\ vad.isListening /\ ~vad.speechDetected) =>
           (vad'.speechTimer = 0 /\ Idle(vad') /\ vad'.emitted = << >>)
     /\ (/\ vadOp'.op = "sample" /\ Above(vadOp'.level)
         /\ vad.isListening /\ ~vad.speechDetected /\ vad.speechTimer = 0) =>
           vad'.speechTimer = now + defaultOptions.speechTimeout
     /\ (vadOp'.op = "speechTimer" /\ Has(vad'.emitted, "SpeechStarted")) =>
           (/\ voicedSince # 0
            /\ now >= voicedSince + defaultOptions.speechTimeout)]_vars

\* a voiced sample armed the detector and a silent sample arrived before
\* the speech timeout was due: no timer, Idle, nothing emitted
C16_Witness ==
  /\ voicedSeen /\ vad.isListening
  /\ vadOp.op = "sample" /\ ~Above(vadOp.level)
  /\ now < 1 + defaultOptions.speechTimeout
  /\ Idle(vad) /\ NoTimers(vad)
  /\ runEvents = << >> /\ startedBy = "none"

\* C17 as stated: when the speech timer fires in Idle on a listening
\* detector whose last sample is voiced, the detector becomes SpeechActive,
\* emits SpeechStarted and arms the maxSpeechDuration timer.
C17_ArmedTimerStartsSpeech ==
  [][(/\ vadOp'.op = "speechTimer"
      /\ vad.isListening /\ ~vad.speechDetected /\ Above(vad.lastAudioLevel)) =>
        /\ vad'.speechDetected /\ vad'.isActive
        /\ vad'.emitted = << "SpeechStarted" >>
        /\ vad'.maxDurationTimer = now + defaultOptions.maxSpeechDuration]_vars

\* C17 as amended: the same, provided the recorder starts; when it does not,
\* the detector stays Idle, emits nothing and has no timer pending.
C17_ArmedTimerStartsSpeechIfRecording ==
  [][(/\ vadOp'.op = "speechTimer"
      /\ vad.isListening /\ ~vad.speechDetected /\ Above(vad.lastAudioLevel)) =>
        IF vad'.isRecording
        THEN /\ vad'.speechDetected /\ vad'.isActive
             /\ vad'.emitted = << "SpeechStarted" >>
             /\ vad'.maxDurationTimer = now + defaultOptions.maxSpeechDuration
             /\ vad'.speechTimer = 0
        ELSE /\ Idle(vad') /\ vad'.emitted = << >> /\ NoTimers(vad')]_vars

\* the speech timer has fired on a voiced run and started the speech
C17_Witness ==
  /\ vadOp.op = "speechTimer" /\ startedBy = "speechTimer"
  /\ vad.speechDetected /\ vad.isActive /\ vad.isRecording
  /\ vad.emitted = << "SpeechStarted" >>
  /\ vad.maxDurationTimer = now + defaultOptions.maxSpeechDuration
  /\ voicedSince # 0 /\ now >= voicedSince + defaultOptions.speechTimeout

\* C18: in SpeechActive a sample that is not voiced leaves a silence timer
\* running (a new one is due silenceTimeout later), a voiced sample leaves
\* none running and the speech goes on, and the silence timer ends the
\* speech only when the samples have been non-voiced without a break for
\* silenceTimeout.
C18_SilenceDebounce ==
  [][/\ (/\ vadOp'.op = "sample" /\ ~Above(vadOp'.level)
         /\ vad.isListening /\ vad.speechDetected) =>
           /\ vad'.silenceTimer # 0 /\ vad'.speechDetected
           /\ vad.silenceTimer = 0 =>
                 vad'.silenceTimer = now + defaultOptions.silenceTimeout
     /\ (/\ vadOp'.op = "sample" /\ Above(vadOp'.level)
         /\ vad.isListening /\ vad.speechDetected) =>
           (vad'.silenceTimer = 0 /\ vad'.speechDetected /\ vad'.emitted = << >>)
     /\ (vadOp'.op = "silenceTimer" /\ vad.speechDetected /\ ~vad'.speechDetected) =>
           (/\ silentSince # 0
            /\ now >= silentSince + defaultOptions.silenceTimeout)]_vars

\* during a speech a pause started the silence timer and a voiced sample
\* cancelled it before it was due
C18_Witness ==
  /\ vadOp.op = "sample" /\ Above(vadOp.level)
  /\ vad.speechDetected /\ vad.silenceTimer = 0
  /\ vad.silenceStartTime >= vad.speechStartTime /\ vad.speechStartTime > 0
  /\ now < vad.silenceStartTime + defaultOptions.silenceTimeout
  /\ startedBy = "speechTimer"

MaxDurationEndsSpeechAboveMinimum ==
  [][(/\ vadOp'.op = "maxDurationTimer"
      /\ defaultOptions.maxSpeechDuration >= defaultOptions.minSpeechDuration) =>
        /\ vad'.emitted = << "MaxDurationReached", "SpeechEnded" >>
        /\ Idle(vad') /\ NoTimers(vad')]_vars

\* the feed has been pushed and every timeout it started has run
FeedDone == now > Len(FeedLevels) /\ NoTimers(vad)

IsPrefix(p, q) == Len(p) <= Len(q) /\ \A i \in 1..Len(p) : p[i] = q[i]

\* the voiced run of the feed lasts 24 units (600 ms); "about" allows 4 units
\* (100 ms) either way
About600ms(d) == d >= 24 - 4 /\ d <= 24 + 4

\* C21: on the feed of 10 samples of 0.05, 600 ms of 0.3 and 2000 ms of
\* 0.02 under the default options, the events emitted are SpeechStarted and
\* then SpeechEnded, once each, and the speech duration reported with
\* SpeechEnded is about 600 ms.
C21_FeedOneSpeechOf600ms ==
  /\ IsPrefix(runEvents, << "SpeechStarted", "SpeechEnded" >>)
  /\ FeedDone => runEvents = << "SpeechStarted", "SpeechEnded" >>
  /\ Has(runEvents, "SpeechEnded") => About600ms(vad.speechDuration)

\* what the code does on that feed: one SpeechStarted, one SpeechEnded, and a
\* duration that runs from the firing of the speech timer to the firing of
\* the silence timer (600 - 500 + 2000 = 2100 ms, 84 units)
FeedOneSpeechOf2100ms ==
  /\ IsPrefix(runEvents, << "SpeechStarted", "SpeechEnded" >>)
  /\ FeedDone => runEvents = << "SpeechStarted", "SpeechEnded" >>
  /\ Has(runEvents, "SpeechEnded") =>
       vad.speechDuration = 24 - defaultOptions.speechTimeout
                              + defaultOptions.silenceTimeout

\* a detector that is not listening: Idle, no timeout pending, nothing
\* emitted by the last operation
Stopped(v) ==
  ~v.isListening /\ Idle(v) /\ NoTimers(v) /\ v.emitted = << >>

\* C22: stop() on a listening detector leaves it not listening and Idle with
\* the three timers cancelled, and from then on no operation but start()
\* (samples, forceStart, forceStop, resetState, the passing of time) emits an
\* event, arms a timer or leaves that state.
C22_StopResetsToIdle ==
  [][/\ (vadOp'.op = "stop" /\ vad.isListening) => Stopped(vad')
     /\ (~vad.isListening /\ vadOp'.op # "start") => Stopped(vad')]_vars

\* stop() has cut a speech short and a voiced sample has arrived since
C22_Witness ==
  /\ ~vad.isListening
  /\ runEvents = << "SpeechStarted" >>
  /\ vadOp.op = "sample" /\ Above(vadOp.level)
  /\ now > 1

\* C23: a recording is sent as voice_input only when the detector ended it
\* with SpeechEnded: not when the detector discarded it as shorter than
\* minSpeechDuration, and not when stop() cut it off.
C23_VoiceInputOnlyOnSpeechEnded ==
  capture.voiceInput \in {"none", "SpeechEnded"}

\* the two cases of C23 apart
DiscardedNotSent == capture.voiceInput # "discarded"

CutOffNotSent == capture.voiceInput # "stop"

\* the elements that are playing
NowPlaying == { e \in Items : Playing(audios, e) }

\* C24: at most one audio item is playing in every reachable state.
C24_AtMostOnePlaying == Cardinality(NowPlaying) <= 1

\* C25: items start playing in the order in which they were enqueued: the
\* items played so far are in increasing order, and no item is still waiting
\* in the queue when a later one has started.
C25_PlaybackFifo ==
  /\ \A i, j \in 1..Len(playOrder) : i < j => playOrder[i] < playOrder[j]
  /\ \A k \in 1..Len(playback.queue), i \in 1..Len(playOrder) :
       playOrder[i] < playback.queue[k]

\* C26: when the element of an item fails, onPlaybackError is invoked and,
\* if items are waiting, the head of the queue is taken from the queue and
\* played in the same step, whether the failed item was played by queueAudio
\* or by processQueue.
C26_ErrorContinuesQueue ==
  [][playOp'.op = "onerror" =>
       /\ Has(playOp'.cb, "onPlaybackError")
       /\ playback.queue # << >> =>
            audios'[Head(playback.queue)].st # "queued"]_vars

\* the part of C26 the code keeps: the error is reported, and the queue goes
\* on after an item that processQueue played
ErrorContinuesQueueFromQueue ==
  [][playOp'.op = "onerror" =>
       /\ Has(playOp'.cb, "onPlaybackError")
       /\ (playback.queue # << >> /\ audios[playOp'.item].via = "queue") =>
            audios'[Head(playback.queue)].st # "queued"]_vars

\* C27: after stopPlayback() no element is playing, currentAudio is null and
\* the queue is empty.
C27_StopClearsQueue ==
  [][playOp'.op = "stopPlayback" =>
       /\ \A e \in Items : ~Playing(audios', e)
       /\ playback'.currentAudio = Null /\ ~playback'.isPlaying
       /\ playback'.queue = << >>]_vars

\* what stopPlayback() does: the current element is paused and forgotten
StopPausesCurrent ==
  [][playOp'.op = "stopPlayback" =>
       /\ playback.currentAudio # Null => audios'[playback.currentAudio].paused
       /\ playback'.currentAudio = Null /\ ~playback'.isPlaying
       /\ playback'.queue = playback.queue]_vars

\* after the step the head of the queue has been taken and played (if the
\* browser accepts its play(), exactly the head has left the queue)
HeadPlayed ==
  LET head == Head(playback.queue) IN
  /\ audios'[head].st \in {"live", "rejected"}
  /\ audios'[head].st = "live" =>
       /\ Playing(audios', head)
       /\ playback'.queue = Tail(playback.queue)

\* the elements that are playing and whose play event has been delivered
Heard == { e \in NowPlaying : audios[e].events = << >> }

\* C28: skipCurrent() while an item is playing (its play event delivered)
\* stops it and plays the head of the queue, which leaves the queue; with an
\* empty queue it only stops; when no item is playing it changes nothing.
C28_SkipCurrent ==
  [][playOp'.op = "skipCurrent" =>
       IF Heard # {}
       THEN /\ \A e \in Heard : audios'[e].paused
            /\ IF playback.queue # << >>
               THEN HeadPlayed
               ELSE \A e \in Items : ~Playing(audios', e)
       ELSE UNCHANGED << playback, audios, playOrder >>]_vars

\* the same with "playing" read from state.isPlaying, as skipCurrent reads it
SkipCurrentByState ==
  [][playOp'.op = "skipCurrent" =>
       IF playback.isPlaying
       THEN /\ playback.currentAudio # Null
            /\ audios'[playback.currentAudio].paused
            /\ playback'.currentAudio = Null /\ ~playback'.isPlaying
            /\ IF playback.queue # << >>
               THEN HeadPlayed
               ELSE /\ playback'.queue = << >>
                    /\ \A e \in Items : Playing(audios', e) => Playing(audios, e)
       ELSE UNCHANGED << playback, audios, playOrder >>]_vars

\* an item that the step plays
Starts(e) == audios[e].st \in {"none", "queued"} /\ audios'[e].st = "live"

\* C29: after every step the stored volume is within [0,1] (0..10 tenths)
\* and is the volume of the active item, and an item that the step plays
\* starts with the stored volume.
C29_VolumeClampedAndApplied ==
  [][/\ playback'.volume \in 0..FullVolume
     /\ playback'.currentAudio # Null =>
          audios'[playback'.currentAudio].volume = playback'.volume
     /\ \A e \in Items : Starts(e) => audios'[e].volume = playback'.volume]_vars

\* the part of C29 the code keeps: the stored volume is clamped, setVolume
\* gives it to currentAudio, and playAudio gives it to the new element
VolumeClampedAndInherited ==
  [][/\ playback'.volume \in 0..FullVolume
     /\ (playOp'.op = "setVolume" /\ playback.currentAudio # Null) =>
          audios'[playback.currentAudio].volume = playback'.volume
     /\ \A e \in Items : Starts(e) => audios'[e].volume = playback'.volume]_vars

\* C30: after every cost update, budgetRemaining = budgetLimit - sessionCost.
C30_RemainingIsLimitMinusCost ==
  costSummary.budgetRemaining =
    costSummary.budgetLimit - costSummary.sessionCost

\* the part of C30 the code keeps: after an agent_response
RemainingAfterAgentResponse ==
  ledgerOp.op = "agent_response" /\ parseCost(normalize(ledgerOp.data.cost)) > 0
    => C30_RemainingIsLimitMinusCost

\* C33: while budgetLimit does not change, no cost update raises
\* budgetRemaining above its previous value.
C33_RemainingNonIncreasing ==
  [][costSummary'.budgetLimit = costSummary.budgetLimit
       => costSummary'.budgetRemaining <= costSummary.budgetRemaining]_vars

\* the part of C33 the code keeps: an agent_response applied to a ledger
\* whose remaining budget is its limit minus its cost does not raise it
RemainingNonIncreasingFromConsistent ==
  [][C30_RemainingIsLimitMinusCost /\ ledgerOp'.op = "agent_response"
       => /\ costSummary'.budgetLimit = costSummary.budgetLimit
          /\ costSummary'.budgetRemaining <= costSummary.budgetRemaining]_vars

\* The caller's connect() calls interleaved with the events of the sockets
\* and the reconnect timers; the caller never calls disconnect().
NextReconnect ==
  \/ \E throws \in BOOLEAN : Connect(throws) /\ History /\ NoVad
  \/ \E tracked \in BOOLEAN, throws \in BOOLEAN :
        ReconnectTimerFires(tracked, throws) /\ History /\ NoVad
  \/ \E s \in Sockets : SockOpen(s, 0) /\ History /\ NoVad
  \/ \E s \in Sockets : SockClosing(s) /\ History /\ NoVad
  \/ \E s \in Sockets : SockError(s) /\ History /\ NoVad
  \/ \E s \in Sockets, wasClean \in BOOLEAN, withError \in BOOLEAN :
        SockClose(s, wasClean, withError) /\ History /\ NoVad

SpecReconnect == Init /\ [][NextReconnect]_vars

\* the sockets that are connecting or open
LiveSockets == { s \in Sockets : socks[s].rs \in {"CONNECTING", "OPEN"} }

\* the heartbeat intervals that have not been cleared
LiveHeartbeats == (IF heartbeatTimer THEN 1 ELSE 0) + leakedHeartbeats

\* C35: at most one socket and at most one heartbeat timer are live, for
\* every interleaving of connect() calls, socket events and timer firings.
C35_OneSocketOneHeartbeat ==
  Cardinality(LiveSockets) <= 1 /\ LiveHeartbeats <= 1

OneLiveSocket == Cardinality(LiveSockets) <= 1
OneLiveHeartbeat == LiveHeartbeats <= 1

\* C37: reconnectAttempts is always within 0..maxReconnectAttempts; it
\* grows only by one, in a close event that schedules a reconnect while it
\* is below the maximum, and it is reset to 0 only by a socket open or by
\* disconnect().
C37_AttemptsBounded ==
  /\ [](reconnectAttempts \in 0..maxReconnectAttempts)
  /\ [][/\ reconnectAttempts' > reconnectAttempts
             => /\ reconnectAttempts' = reconnectAttempts + 1
                /\ reconnectAttempts < maxReconnectAttempts
                /\ Scheduled(lastOp')
        /\ reconnectAttempts' < reconnectAttempts
             => /\ reconnectAttempts' = 0
                /\ lastOp'.op \in {"open", "disconnect"}]_vars

\* the attempts are used up and an unclean close schedules nothing
C37_Witness ==
  /\ reconnectAttempts = maxReconnectAttempts
  /\ lastOp.op = "close" /\ lastOp.arg = "unclean" /\ ~Scheduled(lastOp)

\* The caller queues its messages before the first connect() and then only
\* connects and disconnects.
NextRequeue ==
  \/ \E type \in CallerTypes :
        /\ lastOp.op \in {"init", "send"}
        /\ Send(type, FALSE) /\ NoHistory /\ NoVad
  \/ Connect(FALSE) /\ NoHistory /\ NoVad
  \/ Disconnect /\ NoHistory /\ NoVad
  \/ \E tracked \in BOOLEAN :
        ReconnectTimerFires(tracked, FALSE) /\ NoHistory /\ NoVad
  \/ \E s \in Sockets, throwAt \in 0..MaxSends :
        SockOpen(s, throwAt) /\ NoHistory /\ NoVad
  \/ \E s \in Sockets, wasClean \in BOOLEAN, withError \in BOOLEAN :
        SockClose(s, wasClean, withError) /\ NoHistory /\ NoVad

SpecRequeue == Init /\ [][NextRequeue]_vars

\* C38: disconnect() neither drops nor sends a queued message, and the
\* queue it left is written to the socket in order by the open event of the
\* next connect(): what that open writes is a prefix of the queue and the
\* rest stays queued.
C38_DisconnectKeepsQueue ==
  [][/\ lastOp'.op = "disconnect"
          => messageQueue' = messageQueue /\ wire' = wire
     /\ lastOp'.op = "open"
          => \E k \in 0..Len(messageQueue) :
                /\ wire' = wire \o SubSeq(messageQueue, 1, k)
                /\ messageQueue' = SubSeq(messageQueue, k + 1,
                                          Len(messageQueue))]_vars

\* the part of C38 the code keeps: disconnect() itself leaves the queue
\* and the socket's input alone
DisconnectLeavesQueue ==
  [][lastOp'.op = "disconnect"
       => messageQueue' = messageQueue /\ wire' = wire]_vars

\* socket s delivers an event in this step
Delivers(s) == lastOp'.op \in {"open", "close", "error"} /\ socks'[s] # socks[s]

\* C39: connected and connecting are never both true; connected becomes
\* true only in the open event of the socket that ws references (the one of
\* the most recent connect()); an event of a socket that ws no longer
\* references changes neither connected nor connecting.
C39_PhaseWellDefined ==
  /\ [](~(connected /\ connecting))
  /\ [][/\ (~connected /\ connected')
             => lastOp'.op = "open" /\ ws # Null /\ Delivers(ws)
        /\ \A s \in Sockets :
              Delivers(s) /\ s # ws
                => connected' = connected /\ connecting' = connecting]_vars

\* the part of C39 the code keeps
FlagsExclusive ==
  /\ [](~(connected /\ connecting))
  /\ [][(~connected /\ connected') => lastOp'.op = "open"]_vars

\* C36: the detector's events alternate.  An utterance is active exactly
\* while speechDetected is set: it is set only in a step that emits
\* SpeechStarted; SpeechStarted is emitted once, and only when no utterance
\* is active; SpeechEnded and MaxDurationReached are emitted only while one
\* is active, and SpeechEnded ends it.
C36_EventsAlternate ==
  [][/\ (~vad.speechDetected /\ vad'.speechDetected)
          => Has(vad'.emitted, "SpeechStarted")
     /\ Has(vad'.emitted, "SpeechStarted")
          => /\ ~vad.speechDetected
             /\ Cardinality({ i \in 1..Len(vad'.emitted) :
                                vad'.emitted[i] = "SpeechStarted" }) = 1
     /\ Has(vad'.emitted, "SpeechEnded")
          => vad.speechDetected /\ ~vad'.speechDetected
     /\ Has(vad'.emitted, "MaxDurationReached")
          => vad.speechDetected]_vars

\* a second utterance has started after the first one ended, by forceStart()
C36_Witness ==
  /\ vadOp.op = "forceStart" /\ Has(vad.emitted, "SpeechStarted")
  /\ Has(runEvents, "SpeechStarted") /\ vad.speechDetected
  /\ vad.speechDuration > 0

\* sessionCost is at least the given percentage of budgetLimit
AtLeastPercent(percent) ==
  costSummary.sessionCost * 100 >= percent * costSummary.budgetLimit

\* C32: status() is critical when sessionCost is at least 90% of
\* budgetLimit, warning when it is at least 75% and below 90%, and safe
\* otherwise.
C32_StatusThresholds ==
  budgetStatus(costSummary) =
    IF AtLeastPercent(90) THEN "critical"
    ELSE IF AtLeastPercent(75) THEN "warning"
    ELSE "safe"

\* the part of C32 the code keeps: away from exactly 75% and exactly 90%
StatusOffThresholds ==
  /\ costSummary.sessionCost * 100 # 75 * costSummary.budgetLimit
  /\ costSummary.sessionCost * 100 # 90 * costSummary.budgetLimit
  => C32_StatusThresholds

\* a text or voice message is handed to the transport in this step
HandsOver ==
  /\ ledgerOp'.op \in {"sendMessage", "sendVoice"}
  /\ wire' # wire \/ messageQueue' # messageQueue

\* C31: while the budget status is critical (the hard stop taken as set, as
\* in the scenario sessionCost = 95, budgetLimit = 100) canSend is false and
\* no text_input or voice_input message is handed to the transport.
C31_CriticalBlocksSend ==
  [][budgetStatus(costSummary) = "critical"
       => ~canSendMessage(store) /\ ~HandsOver]_vars

\* the part of C31 the code keeps: with a critical budget a system_command
\* is still written to an open socket, and cost messages are still applied
CriticalLetsControlThrough ==
  [][budgetStatus(costSummary) = "critical"
       => /\ (/\ ledgerOp'.op = "clearConversation"
              /\ connected /\ wsIsOpen(ws, socks) /\ lastOp'.ret = "true")
               => /\ Len(wire') = Len(wire) + 1
                  /\ wire'[Len(wire')].type = SYSTEM_COMMAND
          /\ "onCostUpdate" \in lastOp'.cb /\ lastOp' # lastOp
               => \E costData \in Snapshots :
                     costSummary' = onCostUpdate(costSummary,
                                      normalizedCostData(costData))]_vars

\* C40: after a text message is sent, isTyping is eventually cleared, also
\* when the connection closes before a response arrives.
C40_TypingEventuallyCleared == store.isTyping ~> ~store.isTyping

\* the part of C40 the code keeps: an agent_response or an error clears
\* isTyping
AnswerClearsTyping ==
  [][lastOp' # lastOp /\ lastOp'.cb \cap {"onError", "onAgentResponse"} # {}
       => ~store'.isTyping]_vars

\* the sum of the samples at position i of the first c channels
RECURSIVE SumAt(_, _, _)
SumAt(channels, c, i) ==
  IF c = 0 THEN 0 ELSE channels[c][i] + SumAt(channels, c - 1, i)

\* the average of all channels at position i, clamped to [-1, 1] and
\* quantized as the code quantizes: the bytes of trunc(average * 32767)
MonoPcm(channels, i) ==
  LET c == Len(channels)
      sum == SumAt(channels, c, i)
      clamped == IF sum < -2 * c THEN -2 * c
                 ELSE IF sum > 2 * c THEN 2 * c ELSE sum
  IN setInt16(clamped * 32767, 2 * c)

WavOfAverage ==
  LET channels == wav.frame.channels
      n == Len(channels[1])
  IN /\ Len(wav.bytes) = 44 + 2 * n
     /\ SubSeq(wav.bytes, 21, 22) = setUint16(1)
     /\ SubSeq(wav.bytes, 23, 24) = setUint16(1)
     /\ SubSeq(wav.bytes, 25, 28) = setUint32(wav.frame.sampleRate)
     /\ SubSeq(wav.bytes, 41, 44) = setUint32(2 * n)
     /\ \A i \in 1..n :
           SubSeq(wav.bytes, 43 + 2 * i, 44 + 2 * i) = MonoPcm(channels, i)

\* C34: the encoding of a frame of N samples with any number of channels is
\* a 44-byte header (PCM, one channel, the frame's sample rate, data length
\* 2N) followed by 2N bytes: the average of all channels, clamped to
\* [-1, 1], as 16-bit signed PCM.
C34_EncodeAveragesAllChannels == wav.bytes # << >> => WavOfAverage

\* the part of C34 the code keeps: frames of one or two channels
EncodeMonoAndStereo ==
  wav.bytes # << >> /\ Len(wav.frame.channels) <= 2 => WavOfAverage
====
